---------------------------- MODULE Spec2Model ----------------------------
(***************************************************************************)
(* Model of vitest-temporary-fixture: Fixture.make (synchronous) and       *)
(* FixtureAsync.make (suspending at every filesystem operation), the       *)
(* process-wide allowed-paths set they share per module, and the           *)
(* filesystem they write to.                                               *)
(*                                                                         *)
(* A JavaScript string that is used as a path is kept as the record        *)
(* [abs, segs, trail]: whether it starts with '/', its segments between    *)
(* separators, and whether it ends with a separator.  "/t/x/" is           *)
(* [abs |-> TRUE, segs |-> <<"t","x">>, trail |-> TRUE]; "." is the        *)
(* relative path without segments.                                         *)
(***************************************************************************)
EXTENDS Naturals, Sequences, FiniteSets, TLC

VARIABLES
  cwd,            \* process.cwd(): a normalized absolute path
  tmp,            \* os.tmpdir(): a normalized absolute path
  fs,             \* the filesystem: segments of an absolute path -> entry
  allowedPaths,   \* the module-level Set `allowedPaths`
  calls           \* the top-level make calls: id -> call record

vars == <<cwd, tmp, fs, allowedPaths, calls>>

(***************************************************************************)
(* Strings and paths (node:path, POSIX flavour)                            *)
(***************************************************************************)
P(abs, segs, trail) == [abs |-> abs, segs |-> segs, trail |-> trail]

Abs(segs) == P(TRUE, segs, FALSE)

Rel(segs) == P(FALSE, segs, FALSE)

Front(s) == SubSeq(s, 1, Len(s) - 1)

Last(s) == s[Len(s)]

\* normalizeString(): drops "." and empty segments, lets ".." remove the
\* segment before it; above the start of a relative path ".." is kept,
\* above the root of an absolute path it is dropped.
RECURSIVE normalizeString(_, _, _)
normalizeString(out, rest, allowAboveRoot) ==
  IF rest = <<>> THEN out
  ELSE LET s == Head(rest) IN
    IF s = "." \/ s = "" THEN normalizeString(out, Tail(rest), allowAboveRoot)
    ELSE IF s = ".." THEN
      IF out # <<>> /\ Last(out) # ".."
        THEN normalizeString(Front(out), Tail(rest), allowAboveRoot)
      ELSE IF allowAboveRoot
        THEN normalizeString(Append(out, ".."), Tail(rest), allowAboveRoot)
      ELSE normalizeString(out, Tail(rest), allowAboveRoot)
    ELSE normalizeString(Append(out, s), Tail(rest), allowAboveRoot)

\* path.normalize(): a trailing separator of the input is kept ("/" alone
\* has none to keep).
normalize(p) ==
  LET segs == normalizeString(<<>>, p.segs, ~p.abs) IN
  P(p.abs, segs, IF segs = <<>> /\ p.abs THEN FALSE ELSE p.trail)

\* path.dirname() of a normalized path: trailing separators are ignored,
\* dirname("/") is "/" and the dirname of a one-segment relative path is ".".
dirname(p) ==
  P(p.abs, IF p.segs = <<>> THEN <<>> ELSE Front(p.segs), FALSE)

\* path.join(a, b): normalize(a + "/" + b); an empty argument is skipped.
join(a, b) ==
  IF b.segs = <<>> /\ ~b.abs /\ ~b.trail THEN normalize(a)
  ELSE normalize(P(a.abs, a.segs \o b.segs, b.trail))

\* path.resolve(from, to): absolute, normalized, without trailing separator;
\* a relative `from` is resolved against the working directory.
resolve(from, to) ==
  LET raw == IF to.abs THEN to.segs
             ELSE IF from.abs THEN from.segs \o to.segs
             ELSE cwd.segs \o from.segs \o to.segs
  IN Abs(normalizeString(<<>>, raw, FALSE))

\* p is q or lies below q (both normalized, absolute).
IsPrefix(q, p) ==
  /\ Len(q) <= Len(p)
  /\ SubSeq(p, 1, Len(q)) = q

Below(p, r) == p.abs /\ r.abs /\ IsPrefix(r.segs, p.segs)

StrictlyBelow(p, r) == Below(p, r) /\ Len(p.segs) > Len(r.segs)


(***************************************************************************)
(* The filesystem (node:fs and mkdirp, as far as make uses them).          *)
(* fs maps the segments of an absolute path to an entry                    *)
(* [kind, data, ino, target]: a directory, a file (hard links of one file  *)
(* share its ino and so its data) or a symbolic link to an absolute path.  *)
(* Every operation returns [err, fs]; err is "" or the error code.         *)
(***************************************************************************)
NoStr == Rel(<<>>)

DirEnt == [kind |-> "dir", data |-> NoStr, ino |-> 0, target |-> <<>>]

FileEnt(data, ino) == [kind |-> "file", data |-> data, ino |-> ino, target |-> <<>>]

LinkEnt(target, type) ==
  [kind |-> "symlink", data |-> NoStr, ino |-> 0, target |-> target, type |-> type]

FsRes(err, f) == [err |-> err, fs |-> f]

\* Path resolution by the OS: symbolic links in the directory part are
\* followed, the last component's only when followLast; the last component
\* may be missing.  [ok, segs].
RECURSIVE walk(_, _, _, _, _)
walk(f, done, rest, fuel, followLast) ==
  IF rest = <<>> THEN [ok |-> TRUE, segs |-> done]
  ELSE LET nxt == Append(done, Head(rest))
           more == Tail(rest)
       IN
    IF nxt \notin DOMAIN f THEN [ok |-> more = <<>>, segs |-> nxt]
    ELSE IF f[nxt].kind = "symlink" /\ (more # <<>> \/ followLast) THEN
      IF fuel = 0 THEN [ok |-> FALSE, segs |-> nxt]
      ELSE walk(f, <<>>, f[nxt].target \o more, fuel - 1, followLast)
    ELSE IF f[nxt].kind = "file" /\ more # <<>> THEN [ok |-> FALSE, segs |-> nxt]
    ELSE walk(f, nxt, more, fuel, followLast)

realpath(f, segs, followLast) ==
  walk(f, <<>>, segs, Cardinality(DOMAIN f), followLast)

Put(f, segs, ent) ==
  [q \in DOMAIN f \cup {segs} |-> IF q = segs THEN ent ELSE f[q]]

NextIno(f) ==
  LET used == {f[q].ino : q \in DOMAIN f} IN
  (CHOOSE n \in used : \A m \in used : m <= n) + 1

\* fs.statSync / fsPromises.stat: "" when the path does not exist, else the
\* kind of what it resolves to.
statKind(f, p) ==
  LET w == realpath(f, p.segs, TRUE) IN
  IF w.ok /\ w.segs \in DOMAIN f THEN f[w.segs].kind ELSE ""

\* mkdirp: creates the directory and every missing ancestor; an existing
\* directory is accepted.
RECURSIVE mkdirpSegs(_, _)
mkdirpSegs(f, segs) ==
  IF segs = <<>> THEN FsRes("", f)
  ELSE LET up == mkdirpSegs(f, Front(segs)) IN
    IF up.err # "" THEN up
    ELSE LET w == realpath(up.fs, segs, TRUE)
             l == realpath(up.fs, segs, FALSE)
         IN
      IF ~w.ok THEN FsRes("ENOTDIR", up.fs)
      ELSE IF w.segs \in DOMAIN up.fs THEN
        IF up.fs[w.segs].kind = "dir" THEN FsRes("", up.fs)
        ELSE FsRes("EEXIST", up.fs)
      ELSE IF l.segs \in DOMAIN up.fs THEN FsRes("EEXIST", up.fs)
      ELSE FsRes("", Put(up.fs, w.segs, DirEnt))

\* A mkdir that refuses a directory that is there already.
mkdirpNew(f, p) ==
  IF statKind(f, p) # "" THEN FsRes("EEXIST", f) ELSE mkdirpSegs(f, p.segs)

mkdirp(f, p) == mkdirpSegs(f, p.segs)

\* fs.writeFileSync / fsPromises.writeFile: creates the file or replaces the
\* data of the existing one (of every hard link of it).
writeFile(f, p, data) ==
  LET w == realpath(f, p.segs, TRUE) IN
  IF p.trail THEN FsRes("EISDIR", f)
  ELSE IF ~w.ok THEN FsRes("ENOENT", f)
  ELSE IF w.segs \in DOMAIN f THEN
    IF f[w.segs].kind # "file" THEN FsRes("EISDIR", f)
    ELSE FsRes("", [q \in DOMAIN f |->
                      IF f[q].kind = "file" /\ f[q].ino = f[w.segs].ino
                        THEN FileEnt(data, f[q].ino) ELSE f[q]])
  ELSE FsRes("", Put(f, w.segs, FileEnt(data, NextIno(f))))

\* fs.linkSync / fsPromises.link(existingPath, newPath).
link(f, existingPath, newPath) ==
  LET e == realpath(f, existingPath.segs, FALSE)
      n == realpath(f, newPath.segs, FALSE)
  IN
  IF newPath.trail \/ ~e.ok \/ e.segs \notin DOMAIN f \/ ~n.ok
    THEN FsRes("ENOENT", f)
  ELSE IF f[e.segs].kind = "dir" THEN FsRes("EPERM", f)
  ELSE IF n.segs \in DOMAIN f THEN FsRes("EEXIST", f)
  ELSE FsRes("", Put(f, n.segs, f[e.segs]))

\* fs.symlinkSync / fsPromises.symlink(target, path, type): the target is
\* stored as given and is not looked at; the type is kept with the link.
symlink(f, target, p, type) ==
  LET n == realpath(f, p.segs, FALSE) IN
  IF p.trail \/ ~n.ok THEN FsRes("ENOENT", f)
  ELSE IF n.segs \in DOMAIN f THEN FsRes("EEXIST", f)
  ELSE FsRes("", Put(f, n.segs, LinkEnt(target.segs, type)))


(***************************************************************************)
(* Fixture values.  A JavaScript value that can be given as content is the *)
(* record [tagged, type, js, oid, str, entries]: `tagged` says that it is  *)
(* an instance of Fixture, of the given `type`; `js` is the kind of the    *)
(* value itself (of the content the Fixture was built from, when tagged);  *)
(* `oid` is the identity of a mapping object; `str` is the string; and     *)
(* `entries` are the mapping's own properties in insertion order.          *)
(***************************************************************************)
Value(js, oid, str, entries) ==
  [tagged |-> FALSE, type |-> "", js |-> js, oid |-> oid, str |-> str,
   entries |-> entries]

RawStr(str) == Value("string", 0, str, <<>>)

RawDir(oid, entries) == Value("object", oid, NoStr, entries)

Entry(name, value) == [name |-> name, value |-> value]

\* typeof
typeOf(js) ==
  IF js \in {"object", "array", "null", "buffer", "uint8array"} THEN "object"
  ELSE js

IsBytes(js) == js \in {"buffer", "uint8array"}

\* Object.entries(): integer-like keys first, in ascending order, then the
\* other keys in insertion order.
IndexKeys == <<"0", "1", "2">>

IsIndexKey(name) ==
  /\ ~name.abs /\ ~name.trail /\ Len(name.segs) = 1
  /\ \E i \in DOMAIN IndexKeys : IndexKeys[i] = name.segs[1]

RECURSIVE indexEntries(_, _)
indexEntries(es, i) ==
  IF i > Len(IndexKeys) THEN <<>>
  ELSE SelectSeq(es, LAMBDA e : e.name = Rel(<<IndexKeys[i]>>))
         \o indexEntries(es, i + 1)

\* An enumeration of the entries in the order they were added in.
entriesAsDeclared(es) == es

objectEntries(es) ==
  indexEntries(es, 1) \o SelectSeq(es, LAMBDA e : ~IsIndexKey(e.name))

rawToType(content) ==
  IF content.tagged THEN content.type
  ELSE IF typeOf(content.js) = "string" \/ IsBytes(content.js) THEN "file"
  ELSE IF typeOf(content.js) = "object" THEN "dir"
  ELSE "InvalidContent"

\* What a validation returns: err is "" or the error thrown, `at` the entry
\* name and `what` the value (as a string) that the message of the error
\* gives.
Checked(err, seen, at, what) ==
  [err |-> err, seen |-> seen, at |-> at, what |-> what]

\* A validation that keeps one `seen` set per chain of ancestors.
RECURSIVE validateEntriesPerChain(_, _)
validateEntriesPerChain(es, seen) ==
  IF es = <<>> THEN Checked("", seen, NoStr, NoStr)
  ELSE LET dirName == Head(es).name
           dirContent == Head(es).value
           contentType == rawToType(dirContent)
       IN
    IF contentType = "InvalidContent"
      THEN Checked("InvalidContent", seen, NoStr, dirContent.str)
    ELSE IF contentType = "dir" /\ typeOf(dirContent.js) = "object"
            /\ ~dirContent.tagged THEN
      IF dirContent.js = "null" THEN Checked("TypeError", seen, NoStr, NoStr)
      ELSE IF dirContent.oid \in seen
        THEN Checked("CycleDetected", seen, dirName, NoStr)
      ELSE LET sub == validateEntriesPerChain(objectEntries(dirContent.entries),
                                              seen \cup {dirContent.oid})
           IN IF sub.err # "" THEN sub ELSE validateEntriesPerChain(Tail(es), seen)
    ELSE validateEntriesPerChain(Tail(es), seen)

\* validateDirContents(content, seen): the one `seen` set is shared by the
\* whole recursion.  A null entry is classified 'dir', is not in `seen`, and
\* makes Object.entries throw a TypeError.
RECURSIVE validateEntries(_, _)
validateEntries(es, seen) ==
  IF es = <<>> THEN Checked("", seen, NoStr, NoStr)
  ELSE LET dirName == Head(es).name
           dirContent == Head(es).value
           contentType == rawToType(dirContent)
       IN
    IF contentType = "InvalidContent"
      THEN Checked("InvalidContent", seen, NoStr, dirContent.str)
    ELSE IF contentType = "dir" /\ typeOf(dirContent.js) = "object"
            /\ ~dirContent.tagged THEN
      IF dirContent.js = "null" THEN Checked("TypeError", seen, NoStr, NoStr)
      ELSE IF dirContent.oid \in seen
        THEN Checked("CycleDetected", seen, dirName, NoStr)
      ELSE LET sub == validateEntries(objectEntries(dirContent.entries),
                                      seen \cup {dirContent.oid})
           IN IF sub.err # "" THEN sub ELSE validateEntries(Tail(es), sub.seen)
    ELSE validateEntries(Tail(es), seen)

validateDirContents(content, seen) ==
  IF content.js = "null" THEN Checked("TypeError", seen, NoStr, NoStr)
  ELSE validateEntries(objectEntries(content.entries), seen)

\* assertValidContent(type, content): what it throws, if anything.
assertValidContent(type, content) ==
  IF type = "dir" THEN
    IF typeOf(content.js) # "object" THEN Checked("TypeError", {}, NoStr, NoStr)
    ELSE validateDirContents(content, {content.oid})
  ELSE IF type = "file" THEN
    IF typeOf(content.js) # "string" /\ ~IsBytes(content.js)
      THEN Checked("TypeError", {}, NoStr, NoStr)
    ELSE Checked("", {}, NoStr, NoStr)
  ELSE IF type \in {"link", "symlink"} THEN
    IF typeOf(content.js) # "string" THEN Checked("TypeError", {}, NoStr, NoStr)
    ELSE Checked("", {}, NoStr, NoStr)
  ELSE Checked("InvalidType", {}, NoStr, NoStr)

\* new Fixture(type, content): the error thrown, or the fixture.
Fixture(type, content) ==
  LET valid == assertValidContent(type, content) IN
  [err |-> valid.err, at |-> valid.at, what |-> valid.what,
   fixture |-> [content EXCEPT !.tagged = TRUE, !.type = type]]

\* A Fixture that was constructed without error.
Fx(type, content) == Fixture(type, content).fixture

rawToFixture(content) ==
  IF content.tagged THEN [err |-> "", fixture |-> content]
  ELSE IF rawToType(content) = "InvalidContent"
    THEN [err |-> "InvalidContent", fixture |-> content]
  ELSE Fixture(rawToType(content), content)


(***************************************************************************)
(* The state one make call threads through its recursion:                  *)
(*   fs, allowed   the filesystem and the shared allowed-paths set         *)
(*   symlinks      the `symlinks` object: <<[path, target], ...>> in       *)
(*                 insertion order                                         *)
(*   log           what the call did, in order: containment checks,        *)
(*                 updates of the allowed-paths set, filesystem operations *)
(*   err           "" or the error that was thrown                         *)
(* A log event is [op, path, target, ok, allowed]; `allowed` is the        *)
(* allowed-paths set right after the event.                                *)
(***************************************************************************)
NoPath == Rel(<<>>)

Ev(op, path, target, ok, allowed) ==
  [op |-> op, path |-> path, target |-> target, ok |-> ok, allowed |-> allowed]

St(f, allowed, symlinks, log, err) ==
  [fs |-> f, allowed |-> allowed, symlinks |-> symlinks, log |-> log, err |-> err]

Logged(st, op, path, target, ok) ==
  [st EXCEPT !.log = Append(st.log, Ev(op, path, target, ok, st.allowed))]

Thrown(st, err) == [st EXCEPT !.err = err]

\* A call that starts on the set as the call before it has left it.
resetAllowedPathsNot(st) ==
  Logged(st, "reset", NoPath, NoPath, TRUE)

\* resetAllowedPaths()
resetAllowedPaths(st) ==
  Logged([st EXCEPT !.allowed = {cwd, tmp}], "reset", NoPath, NoPath, TRUE)

\* An ancestor test in place of the membership test.
isAllowedBelow(allowed, newPath) ==
  \E a \in allowed : Below(dirname(newPath), a)

\* The test of checkIfPathIsAllowed(newPath).
isAllowed(allowed, newPath) == dirname(newPath) \in allowed

\* checkIfPathIsAllowed(newPath): throws 'Illegal path' unless the test holds.
checkIfPathIsAllowed(st, newPath) ==
  IF isAllowed(st.allowed, newPath)
    THEN Logged(st, "check", newPath, NoPath, TRUE)
  ELSE Thrown(Logged(st, "check", newPath, NoPath, FALSE), "IllegalPath")

\* A filesystem operation within a call: its effect and its event.
FsDone(st, op, path, target, res) ==
  LET s1 == Logged([st EXCEPT !.fs = res.fs], op, path, target, res.err = "") IN
  IF res.err = "" THEN s1 ELSE Thrown(s1, res.err)

\* A root directory that leaves the working and temp directories allowed.
clearAllowedNot(st) ==
  Logged(st, "clear", NoPath, NoPath, TRUE)

\* allowedPaths.clear() / allowedPaths.add(normalizedPath)
clearAllowed(st) ==
  Logged([st EXCEPT !.allowed = {}], "clear", NoPath, NoPath, TRUE)

\* An add that allows the parent of the directory as well.
addAllowedWithParent(st, path) ==
  Logged([st EXCEPT !.allowed = st.allowed \cup {path, dirname(path)}],
         "add", path, NoPath, TRUE)

addAllowed(st, path) ==
  Logged([st EXCEPT !.allowed = st.allowed \cup {path}], "add", path, NoPath, TRUE)

\* symlinks[normalizedPath] = targetPath: an existing key keeps its place.
setSymlink(symlinks, path, target) ==
  IF \E i \in DOMAIN symlinks : symlinks[i].path = path
    THEN [i \in DOMAIN symlinks |->
            IF symlinks[i].path = path
              THEN [path |-> path, target |-> target] ELSE symlinks[i]]
  ELSE Append(symlinks, [path |-> path, target |-> target])

recordSymlink(st, path, target) ==
  Logged([st EXCEPT !.symlinks = setSymlink(st.symlinks, path, target)],
         "record", path, target, TRUE)

\* A target type that falls back to 'file' when the target is missing.
getSymLinkTargetTypeOrFile(st, target) ==
  Logged(st, "stat", target, NoPath, statKind(st.fs, target) # "")

\* checkIfPathExists(target) inside getSymLinkTargetType(target): ENOENT
\* becomes the error 'A fixture needs to be created in a subdirectory of
\* the root'.
getSymLinkTargetType(st, target) ==
  IF statKind(st.fs, target) = ""
    THEN Thrown(Logged(st, "stat", target, NoPath, FALSE), "MissingTarget")
  ELSE Logged(st, "stat", target, NoPath, TRUE)

\* A target type that is 'file' whatever the target is.
symlinkTypeFile(f, target) == "file"

\* fs.Stats.isDirectory() of the target decides: 'junction' for a
\* directory, 'file' for everything else.
symlinkType(f, target) ==
  IF statKind(f, target) = "dir" THEN "junction" ELSE "file"

(***************************************************************************)
(* Fixture.make(pathIn, content, symlinks), the synchronous variant.       *)
(* isRoot stands for `symlinks === null`.                                  *)
(***************************************************************************)
\* One pending symlink in the final pass of the top-level call.
flushOne(st, sl) ==
  LET c1 == checkIfPathIsAllowed(st, sl.path) IN
  IF c1.err # "" THEN c1
  ELSE LET c2 == checkIfPathIsAllowed(c1, sl.target) IN
    IF c2.err # "" THEN c2
    ELSE LET t == getSymLinkTargetType(c2, sl.target) IN
      IF t.err # "" THEN t
      ELSE FsDone(t, "symlink", sl.path, sl.target,
                  symlink(t.fs, sl.target, sl.path,
                          symlinkType(t.fs, sl.target)))

\* A final pass that, after a symlink has failed, goes on with the symlinks
\* that follow and throws the first error at its end.
RECURSIVE flushSymlinksToTheEnd(_, _)
flushSymlinksToTheEnd(st, i) ==
  IF i > Len(st.symlinks) THEN st
  ELSE LET one == flushOne([st EXCEPT !.err = ""], st.symlinks[i]) IN
    flushSymlinksToTheEnd(
      [one EXCEPT !.err = IF st.err # "" THEN st.err ELSE one.err], i + 1)

RECURSIVE flushSymlinks(_, _)
flushSymlinks(st, i) ==
  IF st.err # "" \/ i > Len(st.symlinks) THEN st
  ELSE flushSymlinks(flushOne(st, st.symlinks[i]), i + 1)

\* A 'file' branch that creates the file without its content.
makeFileBlank(st, normalizedPath, fixture) ==
  LET c == checkIfPathIsAllowed(st, normalizedPath) IN
  IF c.err # "" THEN c
  ELSE FsDone(c, "writeFile", normalizedPath, NoPath,
              writeFile(c.fs, normalizedPath, NoStr))

\* A 'file' branch that writes the file and checks its path afterwards.
makeFileThenCheck(st, normalizedPath, fixture) ==
  LET w == FsDone(st, "writeFile", normalizedPath, NoPath,
                  writeFile(st.fs, normalizedPath, fixture.str))
  IN IF w.err # "" THEN w ELSE checkIfPathIsAllowed(w, normalizedPath)

makeFile(st, normalizedPath, fixture) ==
  LET c == checkIfPathIsAllowed(st, normalizedPath) IN
  IF c.err # "" THEN c
  ELSE FsDone(c, "writeFile", normalizedPath, NoPath,
              writeFile(c.fs, normalizedPath, fixture.str))

\* A 'link' branch that resolves the target against the working directory.
makeLinkFromCwd(st, normalizedPath, fixture) ==
  LET existingPath == resolve(cwd, fixture.str)
      c1 == checkIfPathIsAllowed(st, existingPath)
  IN
  IF c1.err # "" THEN c1
  ELSE LET c2 == checkIfPathIsAllowed(c1, normalizedPath) IN
    IF c2.err # "" THEN c2
    ELSE FsDone(c2, "link", normalizedPath, existingPath,
                link(c2.fs, existingPath, normalizedPath))

\* A 'link' branch that does not check the existing path.
makeLinkUnchecked(st, normalizedPath, fixture) ==
  LET existingPath == resolve(dirname(normalizedPath), fixture.str)
      c2 == checkIfPathIsAllowed(st, normalizedPath)
  IN
  IF c2.err # "" THEN c2
  ELSE FsDone(c2, "link", normalizedPath, existingPath,
              link(c2.fs, existingPath, normalizedPath))

\* A 'link' branch that puts the link off to the final pass, as the
\* 'symlink' branch does.
makeLinkLater(st, normalizedPath, fixture) ==
  recordSymlink(st, normalizedPath,
                resolve(dirname(normalizedPath), fixture.str))

makeLink(st, normalizedPath, fixture) ==
  LET existingPath == resolve(dirname(normalizedPath), fixture.str)
      c1 == checkIfPathIsAllowed(st, existingPath)
  IN
  IF c1.err # "" THEN c1
  ELSE LET c2 == checkIfPathIsAllowed(c1, normalizedPath) IN
    IF c2.err # "" THEN c2
    ELSE FsDone(c2, "link", normalizedPath, existingPath,
                link(c2.fs, existingPath, normalizedPath))

\* A 'symlink' branch that creates the symlink where the walk meets it.
makeSymlinkNow(st, normalizedPath, fixture) ==
  LET target == resolve(dirname(normalizedPath), fixture.str)
      r == recordSymlink(st, normalizedPath, target)
      made == flushOne(r, [path |-> normalizedPath, target |-> target])
  IN [made EXCEPT !.symlinks = st.symlinks]

makeSymlink(st, normalizedPath, fixture) ==
  recordSymlink(st, normalizedPath,
                resolve(dirname(normalizedPath), fixture.str))

\* The directory branch up to the loop over the entries.
makeDir(st, normalizedPath, isRoot) ==
  LET c == checkIfPathIsAllowed(st, normalizedPath) IN
  IF c.err # "" THEN c
  ELSE LET m == FsDone(c, "mkdirp", normalizedPath, NoPath,
                       mkdirp(c.fs, normalizedPath))
       IN
    IF m.err # "" THEN m
    ELSE addAllowed(IF isRoot THEN clearAllowed(m) ELSE m, normalizedPath)

RECURSIVE make(_, _, _, _)
RECURSIVE makeEntries(_, _, _)
make(st, pathIn, content, isRoot) ==
  LET normalizedPath == normalize(pathIn)
      made == rawToFixture(content)
      fixture == made.fixture
      s0 == IF isRoot THEN resetAllowedPaths(st) ELSE st
      s1 == IF fixture.type = "dir" THEN
              LET d == makeDir(s0, normalizedPath, isRoot) IN
              IF d.err # "" THEN d
              ELSE makeEntries(d, normalizedPath, objectEntries(fixture.entries))
            ELSE IF fixture.type = "file" THEN makeFile(s0, normalizedPath, fixture)
            ELSE IF fixture.type = "link" THEN makeLink(s0, normalizedPath, fixture)
            ELSE IF fixture.type = "symlink"
              THEN makeSymlink(s0, normalizedPath, fixture)
            ELSE Thrown(s0, "UnknownType")
  IN
  IF made.err # "" THEN Thrown(st, made.err)
  ELSE IF isRoot /\ s1.err = "" THEN flushSymlinks(s1, 1)
  ELSE s1

\* A loop over the entries that, after an entry has thrown, goes on with
\* the entries that follow and throws at its end.
makeEntriesToTheEnd(st, normalizedPath, entries) ==
  IF entries = <<>> THEN st
  ELSE LET one == make([st EXCEPT !.err = ""],
                       join(normalizedPath, Head(entries).name),
                       Head(entries).value, FALSE)
       IN makeEntries([one EXCEPT !.err = IF st.err # "" THEN st.err ELSE one.err],
                      normalizedPath, Tail(entries))

makeEntries(st, normalizedPath, entries) ==
  IF entries = <<>> \/ st.err # "" THEN st
  ELSE makeEntries(make(st, join(normalizedPath, Head(entries).name),
                        Head(entries).value, FALSE),
                   normalizedPath, Tail(entries))


(***************************************************************************)
(* The inputs: the environment, the top-level paths and the fixture trees. *)
(***************************************************************************)
\* How many entries the top-level mapping of a fixture has at most.
MaxEntries == 3

\* process.cwd() and os.tmpdir(): both exist; unrelated, the working
\* directory inside the temp directory, or the working directory at "/".
Envs ==
  { [cwd |-> Abs(<<"w">>), tmp |-> Abs(<<"t">>)],
    [cwd |-> Abs(<<"t", "w">>), tmp |-> Abs(<<"t">>)],
    [cwd |-> Abs(<<>>), tmp |-> Abs(<<"t">>)] }

RECURSIVE ancestors(_)
ancestors(segs) ==
  IF segs = <<>> THEN {<<>>} ELSE {segs} \cup ancestors(Front(segs))

Outside(t) == Abs(t.segs \o <<"e">>)

\* The filesystem before the first call: the working directory, the temp
\* directory and one file that is no part of any fixture, <tmp>/e.
InitFs(c, t) ==
  LET dirs == ancestors(c.segs) \cup ancestors(t.segs) IN
  [q \in dirs \cup {Outside(t).segs} |->
     IF q \in dirs THEN DirEnt ELSE FileEnt(Rel(<<"secret">>), 1)]

Sub(p, name) == P(p.abs, Append(p.segs, name), FALSE)

\* The path a caller normally gives: a fresh directory in the temp directory.
FreshRoot(t) == Sub(t, "x")

PathInputs(c, t) ==
  { FreshRoot(t),
    P(TRUE, t.segs \o <<"x">>, TRUE),
    Abs(t.segs \o <<"x", "..">>),
    Abs(t.segs \o <<"x", "y">>),
    Abs(t.segs \o <<".", "y">>),
    c,
    Rel(<<"x">>) }

Hello == Rel(<<"hello">>)

Subs == Rel(<<"subs">>)

File(str) == Fx("file", RawStr(str))

HardLink(target) == Fx("link", RawStr(target))

SymLink(target) == Fx("symlink", RawStr(target))

\* What an entry of the given name may hold.  Among the names are one that
\* climbs out of the root ("../e"), one with a separator ("a/c"), one that
\* is another spelling of "a" ("./a") and the parent itself (".."); among the link targets are
\* siblings, a parent's sibling ("../a"), the file outside ("../e", "/t/e")
\* the root's parent ("..") and a path that nothing is at ("d").
EntryNames ==
  << Rel(<<"a">>), Rel(<<"b">>), Rel(<<"c">>),
     Rel(<<"..", "e">>), Rel(<<"a", "c">>), Rel(<<".", "a">>), Rel(<<"..">>) >>

EntryValues ==
  << { RawStr(Hello),
       RawDir(1, <<Entry(Rel(<<"c">>), RawStr(Subs))>>),
       SymLink(Rel(<<"b">>)) },
     { File(Subs),
       RawDir(2, <<>>),
       HardLink(Rel(<<"a">>)),
       SymLink(Rel(<<"a">>)),
       SymLink(Rel(<<"c">>)) },
     { HardLink(Rel(<<"a">>)),
       HardLink(Rel(<<"..", "e">>)),
       SymLink(Rel(<<"b">>)),
       SymLink(Rel(<<"..", "e">>)),
       SymLink(Abs(<<"t", "e">>)),
       SymLink(Rel(<<"..">>)),
       SymLink(Rel(<<"d">>)),
       RawDir(3, <<Entry(Rel(<<"l">>), HardLink(Rel(<<"..", "a">>)))>>),
       Fx("dir", RawDir(3, <<Entry(Rel(<<"s">>), SymLink(Rel(<<"..", "b">>)))>>)) },
     { RawStr(Hello), RawDir(4, <<>>) },
     { RawStr(Hello), SymLink(Rel(<<"..", "b">>)) },
     { RawStr(Subs), SymLink(Rel(<<"b">>)), SymLink(Rel(<<"..", "e">>)) },
     { RawStr(Hello) } >>

EntryPool ==
  UNION { { Entry(EntryNames[i], v) : v \in EntryValues[i] } : i \in DOMAIN EntryNames }

\* The mappings of at most n entries from the pool, in every insertion
\* order; a mapping has every name once.
RECURSIVE Mappings(_)
Mappings(n) ==
  IF n = 0 THEN {<<>>}
  ELSE LET shorter == Mappings(n - 1) IN
    shorter \cup
    { Append(es, e) : es \in {m \in shorter : Len(m) = n - 1},
                      e \in EntryPool }

DistinctNames(es) ==
  \A i, j \in DOMAIN es : es[i].name = es[j].name => i = j

\* The top-level contents: raw mappings and the same mappings as explicit
\* 'dir' fixtures.
Fixtures(n) ==
  LET ms == {es \in Mappings(n) : DistinctNames(es)} IN
  {RawDir(0, es) : es \in ms} \cup {Fx("dir", RawDir(0, es)) : es \in {m \in ms : Len(m) <= 1}}


AllFixtures == Fixtures(MaxEntries)

MidFixtures == Fixtures(MaxEntries - 1)

SmallFixtures == Fixtures(1)

(***************************************************************************)
(* The top-level calls.  A call record holds the arguments of the call,    *)
(* what the call has recorded and done so far, and how it ended.           *)
(***************************************************************************)
IdleCall ==
  [status |-> "idle", n |-> 0, pathIn |-> NoPath, content |-> RawDir(0, <<>>),
   before |-> <<>>, allowedBefore |-> {}, symlinks |-> <<>>, log |-> <<>>,
   err |-> ""]

\* The record of a call that has returned or thrown; `before` and
\* `allowedBefore` are the filesystem and the allowed-paths set the call
\* started on.
DoneCall(n, pathIn, content, before, allowedBefore, st) ==
  [status |-> "done", n |-> n, pathIn |-> pathIn, content |-> content,
   before |-> before, allowedBefore |-> allowedBefore,
   symlinks |-> st.symlinks, log |-> st.log, err |-> st.err]

Init ==
  /\ \E env \in Envs : cwd = env.cwd /\ tmp = env.tmp
  /\ fs = InitFs(cwd, tmp)
  /\ allowedPaths = {cwd, tmp}
  /\ calls = <<IdleCall>>

\* A top-level call that resets the allowed-paths set before it looks at
\* the content.
FixtureMakeResetFirst(pathIn, content) ==
  LET made == make(St(fs, allowedPaths, <<>>, <<>>, ""), pathIn, content, TRUE)
      st == IF rawToFixture(content).err # ""
              THEN Thrown(resetAllowedPaths(St(fs, allowedPaths, <<>>, <<>>, "")),
                          made.err)
            ELSE made
  IN
  /\ fs' = st.fs
  /\ allowedPaths' = st.allowed
  /\ calls' = <<DoneCall(calls[1].n + 1, pathIn, content, fs, allowedPaths, st)>>
  /\ UNCHANGED <<cwd, tmp>>

\* Fixture.make(pathIn, content) called at top level: it runs to its end.
FixtureMake(pathIn, content) ==
  LET st == make(St(fs, allowedPaths, <<>>, <<>>, ""), pathIn, content, TRUE) IN
  /\ fs' = st.fs
  /\ allowedPaths' = st.allowed
  /\ calls' = <<DoneCall(calls[1].n + 1, pathIn, content, fs, allowedPaths, st)>>
  /\ UNCHANGED <<cwd, tmp>>

\* The contents a call is made with: every fixture for a fresh root in the
\* temp directory when the working directory is elsewhere, fewer entries in
\* the other environments, and one entry at most for the other paths.
\* Contents that the constructor refuses: a number as an entry, a null in a
\* nested mapping.
InvalidFixtures ==
  { RawDir(0, <<Entry(Rel(<<"a">>), RawStr(Hello)),
                Entry(Rel(<<"b">>), Value("number", 0, Rel(<<"1">>), <<>>))>>),
    RawDir(0, <<Entry(Rel(<<"a">>), RawStr(Hello)),
                Entry(Rel(<<"b">>),
                      RawDir(2, <<Entry(Rel(<<"n">>),
                                        Value("null", 0, Rel(<<"null">>), <<>>))>>))>>) }

\* A hard link outside the root to a file inside it:
\* {a: 'hello', '../e': link('x/a')}.
LinkOutFixtures ==
  { RawDir(0, <<Entry(Rel(<<"a">>), RawStr(Hello)),
                Entry(Rel(<<"..", "e">>), HardLink(Rel(<<"x", "a">>)))>>) }

\* A symlink to a directory and one to a file:
\* {a: {c: 'subs'}, b: symlink('a'), c: symlink('a/c')}.
SymlinkFixtures ==
  { RawDir(0, <<Entry(Rel(<<"a">>),
                      RawDir(1, <<Entry(Rel(<<"c">>), RawStr(Subs))>>)),
                Entry(Rel(<<"b">>), SymLink(Rel(<<"a">>))),
                Entry(Rel(<<"c">>), SymLink(Rel(<<"a", "c">>)))>>) }

\* A hard link to a file in a sibling directory, declared before and after
\* the directory: {b: link('a/c'), a: {c: 'subs'}} and
\* {a: {c: 'subs'}, b: link('a/c')}.
LinkOrderFixtures ==
  LET dir == Entry(Rel(<<"a">>), RawDir(1, <<Entry(Rel(<<"c">>), RawStr(Subs))>>))
      lnk == Entry(Rel(<<"b">>), HardLink(Rel(<<"a", "c">>)))
  IN { RawDir(0, <<lnk, dir>>), RawDir(0, <<dir, lnk>>) }

\* A directory entry whose name has a separator, alone and after the
\* directory of its first segment: {'a/c': {}} and {a: {}, 'a/c': {}}.
SeparatorFixtures ==
  LET deep == Entry(Rel(<<"a", "c">>), RawDir(2, <<>>)) IN
  { RawDir(0, <<deep>>),
    RawDir(0, <<Entry(Rel(<<"a">>), RawDir(1, <<>>)), deep>>) }

SideFixtures ==
  InvalidFixtures \cup LinkOutFixtures \cup SymlinkFixtures

ContentsFor(pathIn) ==
  IF pathIn # FreshRoot(tmp) THEN SmallFixtures
  ELSE IF ~Below(cwd, tmp) /\ ~Below(tmp, cwd)
    THEN AllFixtures \cup SideFixtures
  ELSE MidFixtures \cup SideFixtures

\* One call on the initial filesystem.
MakeOnce ==
  /\ calls[1].n = 0
  /\ \E pathIn \in PathInputs(cwd, tmp) :
       \E content \in ContentsFor(pathIn) : FixtureMake(pathIn, content)

Next == MakeOnce

Spec == Init /\ [][Next]_vars

(***************************************************************************)
(* One call on the initial filesystem, with the entries of a mapping in    *)
(* every order: the mappings of one, two and three entries of the pool.    *)
(***************************************************************************)
Pairs(pool) ==
  {<<>>} \cup {<<e>> : e \in pool} \cup {<<e1, e2>> : e1 \in pool, e2 \in pool}

Triples(pool) ==
  Pairs(pool) \cup {<<e1, e2, e3>> : e1 \in pool, e2 \in pool, e3 \in pool}

OrderedFixtures(mappings) ==
  {RawDir(0, es) : es \in {m \in mappings : DistinctNames(m)}}
    \cup LinkOrderFixtures \cup SeparatorFixtures

OrderedContentsFor(pathIn) ==
  IF pathIn # FreshRoot(tmp) THEN SmallFixtures
  ELSE IF ~Below(cwd, tmp) /\ ~Below(tmp, cwd)
    THEN OrderedFixtures(Triples(EntryPool))
  ELSE OrderedFixtures(Pairs(EntryPool))

MakeOrdered ==
  /\ calls[1].n = 0
  /\ \E pathIn \in PathInputs(cwd, tmp) :
       \E content \in OrderedContentsFor(pathIn) : FixtureMake(pathIn, content)

NextOrdered == MakeOrdered

SpecOrdered == Init /\ [][NextOrdered]_vars

(***************************************************************************)
(* Top-level calls run one after another, each on the filesystem and the   *)
(* allowed-paths set the calls before it have left.                        *)
(***************************************************************************)
MaxCalls == 3

SeqPaths(c, t) ==
  { FreshRoot(t),
    Sub(FreshRoot(t), "y"),
    Sub(Sub(FreshRoot(t), "a"), "y"),
    Sub(c, "x") }

SeqFixtures ==
  { RawDir(0, <<>>),
    RawDir(0, <<Entry(Rel(<<"a">>), RawStr(Hello))>>),
    RawDir(0, <<Entry(Rel(<<"a">>),
                      RawDir(1, <<Entry(Rel(<<"c">>), RawStr(Subs))>>))>>),
    RawDir(0, <<Entry(Rel(<<"a">>), RawDir(1, <<>>)),
                Entry(Rel(<<"c">>), HardLink(Rel(<<"..", "e">>)))>>),
    RawDir(0, <<Entry(Rel(<<"c">>), SymLink(Rel(<<"b">>)))>>) }

MakeAgain ==
  /\ calls[1].n < MaxCalls
  /\ \E pathIn \in SeqPaths(cwd, tmp) :
       \E content \in SeqFixtures : FixtureMake(pathIn, content)

NextSeq == MakeAgain

SpecSeq == Init /\ [][NextSeq]_vars


(***************************************************************************)
(* FixtureAsync.make, the asynchronous variant.  A call runs from one      *)
(* await of a filesystem operation to the next without interruption; the   *)
(* operation itself is performed by the operating system at some later     *)
(* moment, and the call resumes at some moment after that.  The await of   *)
(* a nested call that has issued no operation resumes in the same run.     *)
(* A call in flight has, besides the fields of St:                         *)
(*   stack    the directory loops it is in, innermost last:                *)
(*            [dir, rest] with the entries still to make                   *)
(*   flush    the entries of `symlinks` the final pass goes through        *)
(*   idx      the place of the final pass in them                          *)
(*   pending  the operation it awaits, `res`, how it ended, and `type`,    *)
(*            the symlink type getSymLinkTargetType has returned           *)
(***************************************************************************)
NoOp ==
  [op |-> "", path |-> NoPath, target |-> NoPath, data |-> NoStr,
   entries |-> <<>>, isRoot |-> FALSE, res |-> "", type |-> ""]

Await(m, op, path, target, data, entries, isRoot) ==
  [m EXCEPT !.pending = [op |-> op, path |-> path, target |-> target,
                         data |-> data, entries |-> entries,
                         isRoot |-> isRoot, res |-> "", type |-> ""]]

RECURSIVE startNode(_, _, _, _)
RECURSIVE loop(_)
RECURSIVE flushLoop(_)
\* FixtureAsync.make(pathIn, content, symlinks) up to its first await.
startNode(m, pathIn, content, isRoot) ==
  LET normalizedPath == normalize(pathIn)
      made == rawToFixture(content)
      fixture == made.fixture
      s0 == IF isRoot THEN resetAllowedPaths(m) ELSE m
  IN
  IF made.err # "" THEN Thrown(m, made.err)
  ELSE IF fixture.type = "dir" THEN
    LET c == checkIfPathIsAllowed(s0, normalizedPath) IN
    IF c.err # "" THEN c
    ELSE Await(c, "mkdirp", normalizedPath, NoPath, NoStr,
               objectEntries(fixture.entries), isRoot)
  ELSE IF fixture.type = "file" THEN
    LET c == checkIfPathIsAllowed(s0, normalizedPath) IN
    IF c.err # "" THEN c
    ELSE Await(c, "writeFile", normalizedPath, NoPath, fixture.str, <<>>, isRoot)
  ELSE IF fixture.type = "link" THEN
    LET existingPath == resolve(dirname(normalizedPath), fixture.str)
        c1 == checkIfPathIsAllowed(s0, existingPath)
    IN
    IF c1.err # "" THEN c1
    ELSE LET c2 == checkIfPathIsAllowed(c1, normalizedPath) IN
      IF c2.err # "" THEN c2
      ELSE Await(c2, "link", normalizedPath, existingPath, NoStr, <<>>, isRoot)
  ELSE IF fixture.type = "symlink" THEN
    loop(recordSymlink(s0, normalizedPath,
                       resolve(dirname(normalizedPath), fixture.str)))
  ELSE Thrown(s0, "UnknownType")

\* A final pass over one table for all calls: the symlinks of this call and
\* those the other calls in flight have recorded.
loopShared(m) ==
  LET others == SelectSeq(calls[1].symlinks \o calls[2].symlinks,
                          LAMBDA sl : \A k \in DOMAIN m.symlinks :
                                       m.symlinks[k].path # sl.path)
  IN
  IF m.stack = <<>>
    THEN flushLoop([m EXCEPT !.flush = m.symlinks \o others, !.idx = 1])
  ELSE LET top == m.stack[Len(m.stack)] IN
    IF top.rest = <<>> THEN loop([m EXCEPT !.stack = Front(m.stack)])
    ELSE startNode([m EXCEPT !.stack[Len(m.stack)].rest = Tail(top.rest)],
                   join(top.dir, Head(top.rest).name), Head(top.rest).value,
                   FALSE)

\* The call goes on after a node has been made: with the next entry of the
\* innermost directory, with the directory above when there is none, and
\* with the final pass when the top-level node is complete.
loop(m) ==
  IF m.stack = <<>>
    THEN flushLoop([m EXCEPT !.flush = m.symlinks, !.idx = 1])
  ELSE LET top == m.stack[Len(m.stack)] IN
    IF top.rest = <<>> THEN loop([m EXCEPT !.stack = Front(m.stack)])
    ELSE startNode([m EXCEPT !.stack[Len(m.stack)].rest = Tail(top.rest)],
                   join(top.dir, Head(top.rest).name), Head(top.rest).value,
                   FALSE)

\* A final pass that checks the path of a symlink and not its target.
flushLoopPathOnly(m) ==
  IF m.idx > Len(m.flush) THEN m
  ELSE LET sl == m.flush[m.idx]
           c1 == checkIfPathIsAllowed(m, sl.path)
       IN
    IF c1.err # "" THEN c1
    ELSE Await(c1, "stat", sl.target, NoPath, NoStr, <<>>, FALSE)

\* The final pass up to its next await.
flushLoop(m) ==
  IF m.idx > Len(m.flush) THEN m
  ELSE LET sl == m.flush[m.idx]
           c1 == checkIfPathIsAllowed(m, sl.path)
       IN
    IF c1.err # "" THEN c1
    ELSE LET c2 == checkIfPathIsAllowed(c1, sl.target) IN
      IF c2.err # "" THEN c2
      ELSE Await(c2, "stat", sl.target, NoPath, NoStr, <<>>, FALSE)

\* The operating system performs the awaited operation.
perform(f, pending) ==
  IF pending.op = "mkdirp" THEN mkdirp(f, pending.path)
  ELSE IF pending.op = "writeFile" THEN writeFile(f, pending.path, pending.data)
  ELSE IF pending.op = "link" THEN link(f, pending.target, pending.path)
  ELSE IF pending.op = "symlink"
    THEN symlink(f, pending.target, pending.path, pending.type)
  ELSE FsRes(IF statKind(f, pending.path) = "" THEN "MissingTarget" ELSE "", f)

\* The call resumes after the awaited operation.
resume(m) ==
  LET pending == m.pending
      m0 == [m EXCEPT !.pending = NoOp]
  IN
  IF pending.res # "" THEN Thrown(m0, pending.res)
  ELSE IF pending.op = "mkdirp" THEN
    LET added == addAllowed(IF pending.isRoot THEN clearAllowed(m0) ELSE m0,
                            pending.path)
    IN loop([added EXCEPT !.stack =
                Append(m0.stack, [dir |-> pending.path, rest |-> pending.entries])])
  ELSE IF pending.op = "stat" THEN
    LET sl == m0.flush[m0.idx] IN
    [Await(m0, "symlink", sl.path, sl.target, NoStr, <<>>, FALSE)
       EXCEPT !.pending.type = pending.type]
  ELSE IF pending.op = "symlink" THEN flushLoop([m0 EXCEPT !.idx = m0.idx + 1])
  ELSE loop(m0)

\* Where a run has left the call.
settle(m) ==
  IF m.err # "" THEN [m EXCEPT !.status = "done", !.pending = NoOp]
  ELSE IF m.pending.op # "" THEN [m EXCEPT !.status = "issued"]
  ELSE [m EXCEPT !.status = "done"]

AsyncIdle ==
  [status |-> "idle", pathIn |-> NoPath, content |-> RawDir(0, <<>>),
   before |-> <<>>, allowedBefore |-> {}, symlinks |-> <<>>, log |-> <<>>,
   err |-> "", stack |-> <<>>, flush |-> <<>>, idx |-> 0, pending |-> NoOp]

\* A call with the filesystem and the allowed-paths set as they are now,
\* and the call and the set as a run has left them.
Running(c) ==
  [fs |-> fs, allowed |-> allowedPaths, symlinks |-> c.symlinks, log |-> c.log,
   err |-> c.err, stack |-> c.stack, flush |-> c.flush, idx |-> c.idx,
   pending |-> c.pending, status |-> c.status]

Left(c, m) ==
  [c EXCEPT !.symlinks = m.symlinks, !.log = m.log, !.err = m.err,
            !.stack = m.stack, !.flush = m.flush, !.idx = m.idx,
            !.pending = m.pending, !.status = m.status]

(***************************************************************************)
(* Two top-level FixtureAsync.make calls, each started at any moment.      *)
(***************************************************************************)
AsyncCalls == {1, 2}

AsyncPath(i, t) == IF i = 1 THEN Sub(t, "x") ELSE Sub(t, "y")

AsyncFixtures ==
  { RawDir(0, <<>>),
    RawDir(0, <<Entry(Rel(<<"a">>), RawStr(Hello)),
                Entry(Rel(<<"b">>), RawStr(Subs))>>),
    RawDir(0, <<Entry(Rel(<<"a">>), RawStr(Hello)),
                Entry(Rel(<<"..", "e">>), RawStr(Hello))>>),
    RawDir(0, <<Entry(Rel(<<"a">>), RawStr(Hello)),
                Entry(Rel(<<"c">>), HardLink(Rel(<<"..", "e">>)))>>),
    RawDir(0, <<Entry(Rel(<<"a">>),
                      RawDir(1, <<Entry(Rel(<<"c">>), RawStr(Subs))>>)),
                Entry(Rel(<<"b">>), SymLink(Rel(<<"a">>)))>>) }

InitAsync ==
  /\ \E env \in Envs : cwd = env.cwd /\ tmp = env.tmp
  /\ fs = InitFs(cwd, tmp)
  /\ allowedPaths = {cwd, tmp}
  /\ calls = [i \in AsyncCalls |-> AsyncIdle]

\* FixtureAsync.make(pathIn, content) is called and runs to its first await.
AsyncStart(i) ==
  /\ calls[i].status = "idle"
  /\ \E content \in AsyncFixtures :
       LET c == [AsyncIdle EXCEPT !.pathIn = AsyncPath(i, tmp), !.content = content,
                                  !.before = fs, !.allowedBefore = allowedPaths]
           m == settle(startNode(Running(c), c.pathIn, content, TRUE))
       IN /\ allowedPaths' = m.allowed
          /\ calls' = [calls EXCEPT ![i] = Left(c, m)]
  /\ UNCHANGED <<cwd, tmp, fs>>

\* The operating system performs the operation call i awaits.
FsPerform(i) ==
  /\ calls[i].status = "issued"
  /\ LET pending == calls[i].pending
         res == perform(fs, pending)
     IN /\ fs' = res.fs
        /\ calls' = [calls EXCEPT
             ![i].status = "performed",
             ![i].pending.res = res.err,
             ![i].pending.type = IF pending.op = "stat"
                                   THEN symlinkType(fs, pending.path) ELSE @,
             ![i].log = Append(@, Ev(pending.op, pending.path, pending.target,
                                     res.err = "", allowedPaths))]
  /\ UNCHANGED <<cwd, tmp, allowedPaths>>

\* Call i resumes after its operation and runs to its next await or its end.
AsyncResume(i) ==
  /\ calls[i].status = "performed"
  /\ LET m == settle(resume(Running(calls[i]))) IN
     /\ allowedPaths' = m.allowed
     /\ calls' = [calls EXCEPT ![i] = Left(calls[i], m)]
  /\ UNCHANGED <<cwd, tmp, fs>>

NextAsync == \E i \in AsyncCalls : AsyncStart(i) \/ FsPerform(i) \/ AsyncResume(i)

SpecAsync == InitAsync /\ [][NextAsync]_vars

(***************************************************************************)
(* One top-level FixtureAsync.make call with nothing else running, next to *)
(* Fixture.make with the same arguments on the same filesystem and the     *)
(* same allowed-paths set: `sync` is how that call ends.                   *)
(***************************************************************************)
\* Mappings with integer-like names, which Object.entries puts first:
\* {b: 'hello', '1': 'subs'} and
\* {b: 'hello', '1': {c: 'subs'}, '0': symlink('b')}.
IndexFixtures ==
  { RawDir(0, <<Entry(Rel(<<"b">>), RawStr(Hello)),
                Entry(Rel(<<"1">>), RawStr(Subs))>>),
    RawDir(0, <<Entry(Rel(<<"b">>), RawStr(Hello)),
                Entry(Rel(<<"1">>),
                      RawDir(1, <<Entry(Rel(<<"c">>), RawStr(Subs))>>)),
                Entry(Rel(<<"0">>), SymLink(Rel(<<"b">>)))>>) }

\* Contents that are no directory: 'hello', symlink('e'), link('e').
LeafFixtures ==
  { RawStr(Hello), SymLink(Rel(<<"e">>)), HardLink(Rel(<<"e">>)) }

AloneContents(pathIn) ==
  IF pathIn # FreshRoot(tmp) THEN SmallFixtures
  ELSE MidFixtures \cup AsyncFixtures \cup InvalidFixtures \cup LinkOutFixtures
         \cup IndexFixtures \cup LeafFixtures

InitAlone ==
  /\ \E env \in Envs : cwd = env.cwd /\ tmp = env.tmp
  /\ fs = InitFs(cwd, tmp)
  /\ allowedPaths = {cwd, tmp}
  /\ calls = <<AsyncIdle @@ [sync |-> St(fs, allowedPaths, <<>>, <<>>, "")]>>

\* FixtureAsync.make(pathIn, content) is called and runs to its first await.
AloneStart ==
  /\ calls[1].status = "idle"
  /\ \E pathIn \in PathInputs(cwd, tmp) :
       \E content \in AloneContents(pathIn) :
         LET c == [calls[1] EXCEPT
                     !.pathIn = pathIn, !.content = content,
                     !.before = fs, !.allowedBefore = allowedPaths,
                     !.sync = make(St(fs, allowedPaths, <<>>, <<>>, ""),
                                   pathIn, content, TRUE)]
             m == settle(startNode(Running(c), pathIn, content, TRUE))
         IN /\ allowedPaths' = m.allowed
            /\ calls' = <<Left(c, m)>>
  /\ UNCHANGED <<cwd, tmp, fs>>

NextAlone == AloneStart \/ FsPerform(1) \/ AsyncResume(1)

SpecAlone == InitAlone /\ [][NextAlone]_vars

(***************************************************************************)
(* The same top-level call twice: Fixture.make(pathIn, content) and, when  *)
(* it has returned or thrown, Fixture.make with the same arguments again.  *)
(* The record of the first call is kept behind the record of the second.   *)
(***************************************************************************)
TwiceFixtures(pathIn) ==
  IF pathIn = FreshRoot(tmp) THEN MidFixtures ELSE SmallFixtures

MakeFirst ==
  /\ calls[1].n = 0
  /\ \E pathIn \in PathInputs(cwd, tmp) :
       \E content \in TwiceFixtures(pathIn) : FixtureMake(pathIn, content)

MakeSame ==
  /\ calls[1].n = 1
  /\ LET pathIn == calls[1].pathIn
         content == calls[1].content
         st == make(St(fs, allowedPaths, <<>>, <<>>, ""), pathIn, content, TRUE)
     IN
     /\ fs' = st.fs
     /\ allowedPaths' = st.allowed
     /\ calls' = <<DoneCall(2, pathIn, content, fs, allowedPaths, st), calls[1]>>
  /\ UNCHANGED <<cwd, tmp>>

NextTwice == MakeFirst \/ MakeSame

SpecTwice == Init /\ [][NextTwice]_vars

(***************************************************************************)
(* new Fixture(type, content) on its own.  A content is the unfolding of   *)
(* an object graph: oid is the identity of an object, so a value that has  *)
(* the oid of one of its ancestors is a reference back to that ancestor    *)
(* (its entries are not unfolded again), and one oid at two positions is   *)
(* one object shared.                                                      *)
(***************************************************************************)
Num == Value("number", 0, Rel(<<"1">>), <<>>)

Bool == Value("boolean", 0, Rel(<<"true">>), <<>>)

Null == Value("null", 0, Rel(<<"null">>), <<>>)

Undefined == Value("undefined", 0, Rel(<<"undefined">>), <<>>)

Arr(oid, entries) == Value("array", oid, NoStr, entries)

Bytes(js, oid, entries) == Value(js, oid, NoStr, entries)

\* A Fixture instance of type 'dir' whose content is the object `oid`.
DirOf(oid, entries) == [RawDir(oid, entries) EXCEPT !.tagged = TRUE, !.type = "dir"]

Name(s) == Rel(<<s>>)

Shared == RawDir(5, <<Entry(Name("f"), RawStr(Hello))>>)

NewTypes == {"dir", "file", "link", "symlink", "asdf"}

NewContents ==
  { RawStr(Hello), RawStr(NoStr), Num, Bool, Null, Undefined,
    Arr(1, <<>>), Arr(1, <<Entry(Name("0"), RawStr(Hello))>>),
    Bytes("buffer", 1, <<>>), Bytes("buffer", 1, <<Entry(Name("0"), Num)>>),
    Bytes("uint8array", 1, <<>>),
    RawDir(1, <<>>),
    RawDir(1, <<Entry(Name("f"), RawStr(Hello)),
                Entry(Name("d"), RawDir(2, <<Entry(Name("a"), SymLink(Name("x"))),
                                             Entry(Name("b"), HardLink(Name("x")))>>))>>),
    RawDir(1, <<Entry(Name("a"), Num)>>),
    RawDir(1, <<Entry(Name("a"), Bool)>>),
    RawDir(1, <<Entry(Name("a"), Null)>>),
    RawDir(1, <<Entry(Name("a"), Undefined)>>),
    RawDir(1, <<Entry(Name("a"), Arr(2, <<>>))>>),
    RawDir(1, <<Entry(Name("a"), Arr(2, <<Entry(Name("0"), RawStr(Hello))>>))>>),
    RawDir(1, <<Entry(Name("a"), SymLink(NoStr))>>),
    \* d = {a: {d: {}}}; d.a.d = d
    RawDir(1, <<Entry(Name("a"), RawDir(2, <<Entry(Name("d"), RawDir(1, <<>>))>>))>>),
    \* d = {}; d.d = d
    RawDir(1, <<Entry(Name("d"), RawDir(1, <<>>))>>),
    \* d = {f: 'hello', a: {}}; d.a.d = d.a
    RawDir(1, <<Entry(Name("f"), RawStr(Hello)),
                Entry(Name("a"), RawDir(2, <<Entry(Name("d"), RawDir(2, <<>>))>>))>>),
    \* d = {a: 1}; d.d = d
    RawDir(1, <<Entry(Name("a"), Num), Entry(Name("d"), RawDir(1, <<>>))>>),
    \* d = {}; d.a = new Fixture('dir', d)
    RawDir(1, <<Entry(Name("a"), DirOf(1, <<>>))>>),
    \* d = {}; d.a = {n: new Fixture('dir', d)}
    RawDir(1, <<Entry(Name("a"), RawDir(2, <<Entry(Name("n"), DirOf(1, <<>>))>>))>>),
    \* s = {f: 'hello'}; {a: s, b: s}
    RawDir(1, <<Entry(Name("a"), Shared), Entry(Name("b"), Shared)>>),
    \* {a: {c: s}, b: s}
    RawDir(1, <<Entry(Name("a"), RawDir(2, <<Entry(Name("c"), Shared)>>)),
                Entry(Name("b"), Shared)>>),
    \* {a: s, x: 1, b: s}
    RawDir(1, <<Entry(Name("a"), Shared), Entry(Name("x"), Num),
                Entry(Name("b"), Shared)>>),
    \* {a: s, b: new Fixture('dir', s)}
    RawDir(1, <<Entry(Name("a"), Shared),
                Entry(Name("b"), DirOf(5, Shared.entries))>>),
    \* {a: new Fixture('dir', s), b: new Fixture('dir', s)}
    RawDir(1, <<Entry(Name("a"), DirOf(5, Shared.entries)),
                Entry(Name("b"), DirOf(5, Shared.entries))>>),
    \* {a: {}, b: {}}: two objects that are equal
    RawDir(1, <<Entry(Name("a"), RawDir(2, <<>>)), Entry(Name("b"), RawDir(3, <<>>))>>) }

IdleNew(type, content) ==
  [status |-> "idle", type |-> type, content |-> content, err |-> "",
   at |-> NoStr, what |-> NoStr, fixture |-> content]

InitNew ==
  /\ \E env \in Envs : cwd = env.cwd /\ tmp = env.tmp
  /\ fs = InitFs(cwd, tmp)
  /\ allowedPaths = {cwd, tmp}
  /\ \E type \in NewTypes : \E content \in NewContents :
       calls = <<IdleNew(type, content)>>

\* new Fixture(type, content): it throws, or there is a new instance.
NewFixture ==
  /\ calls[1].status = "idle"
  /\ LET new == Fixture(calls[1].type, calls[1].content) IN
       calls' = <<[calls[1] EXCEPT !.status = "done", !.err = new.err,
                                   !.at = new.at, !.what = new.what,
                                   !.fixture = new.fixture]>>
  /\ UNCHANGED <<cwd, tmp, fs, allowedPaths>>

NextNew == NewFixture

SpecNew == InitNew /\ [][NextNew]_vars

(***************************************************************************)
(* A top-level call with content that the constructor refuses, after a     *)
(* call that has left its root in the allowed-paths set.                   *)
(***************************************************************************)
\* d = {a: 'hello'}; d.d = d.   {a: {c: 'subs'}}; a.d = a.   s = {f: 'hello'};
\* {a: s, b: s}.   And a number and a null as entries.
RefusedFixtures ==
  { RawDir(0, <<Entry(Rel(<<"a">>), RawStr(Hello)),
                Entry(Rel(<<"d">>), RawDir(0, <<>>))>>),
    RawDir(0, <<Entry(Rel(<<"a">>),
                      RawDir(1, <<Entry(Rel(<<"c">>), RawStr(Subs)),
                                  Entry(Rel(<<"d">>), RawDir(1, <<>>))>>))>>),
    RawDir(0, <<Entry(Rel(<<"a">>), Shared), Entry(Rel(<<"b">>), Shared)>>) }
    \cup InvalidFixtures

\* The first call, with content that is valid.
MakeValid ==
  /\ calls[1].n = 0
  /\ \E pathIn \in SeqPaths(cwd, tmp) :
       \E content \in SeqFixtures : FixtureMake(pathIn, content)

\* The second call, with content that is refused.
MakeRefused ==
  /\ calls[1].n = 1
  /\ \E pathIn \in SeqPaths(cwd, tmp) :
       \E content \in RefusedFixtures : FixtureMake(pathIn, content)

NextRefused == MakeValid \/ MakeRefused

SpecRefused == Init /\ [][NextRefused]_vars

(***************************************************************************)
(* FixtureAsync.make on contents that hold Fixture instances, among them   *)
(* instances whose mapping reaches the instance itself.  A mapping object  *)
(* is written out where it is met first; every other place it is met at    *)
(* holds a reference, the object's `oid` with no entries, and make reads   *)
(* the entries of the object through it.  Of a call in flight the spec     *)
(* keeps what the rest of the call depends on: no log, and of the          *)
(* directory loops those that have entries left.  `was` holds the          *)
(* configurations the call has been in.                                    *)
(***************************************************************************)
\* The longest path the operating system takes, in segments (PATH_MAX).
PathMax == 5

RECURSIVE definitions(_, _)
definitions(v, oid) ==
  (IF v.oid = oid /\ v.entries # <<>> THEN {v.entries} ELSE {})
    \cup UNION {definitions(v.entries[i].value, oid) : i \in DOMAIN v.entries}

\* The value a reference stands for.
unfold(top, v) ==
  IF v.js = "object" /\ v.entries = <<>> /\ definitions(top, v.oid) # {}
    THEN [v EXCEPT !.entries = CHOOSE es \in definitions(top, v.oid) : TRUE]
  ELSE v

CyclicFixtures ==
  { \* d = {}; f = new FixtureAsync('dir', d); d.a = f; make(root, f)
    DirOf(1, <<Entry(Name("a"), DirOf(1, <<>>))>>),
    \* d = {f: 'hello'}; d.a = new FixtureAsync('dir', d); make(root, d)
    RawDir(1, <<Entry(Name("f"), RawStr(Hello)), Entry(Name("a"), DirOf(1, <<>>))>>),
    \* d = {}; f = new FixtureAsync('dir', d); d['../a'] = f; make(root, {a: f})
    RawDir(1, <<Entry(Name("a"),
                      DirOf(2, <<Entry(Rel(<<"..", "a">>), DirOf(2, <<>>))>>))>>),
    \* d = {}; d.d = d; make(root, d)
    RawDir(1, <<Entry(Name("d"), RawDir(1, <<>>))>>),
    \* explicit 'dir' instances, nested
    Fx("dir", RawDir(1, <<Entry(Name("a"),
                                Fx("dir", RawDir(2, <<Entry(Name("c"), File(Subs))>>))),
                          Entry(Name("b"), SymLink(Name("a")))>>)),
    Fx("dir", RawDir(1, <<Entry(Name("a"),
                                Fx("dir", RawDir(2, <<Entry(Name("b"),
                                                            Fx("dir", RawDir(3, <<>>)))>>))),
                          Entry(Name("c"), HardLink(Rel(<<"..", "e">>)))>>)),
    \* s = {f: 'hello'}; {a: new FixtureAsync('dir', s), b: new FixtureAsync('dir', s)}
    RawDir(1, <<Entry(Name("a"), DirOf(5, Shared.entries)),
                Entry(Name("b"), DirOf(5, <<>>))>>) }

\* What is kept of a call after a run.
kept(top, m) ==
  [m EXCEPT !.log = <<>>,
            !.stack = SelectSeq(m.stack, LAMBDA frame : frame.rest # <<>>),
            !.pending.entries =
               [k \in DOMAIN @ |-> Entry(@[k].name, unfold(top, @[k].value))]]

\* Where the call is: the filesystem, the allowed-paths set, what the call
\* awaits and what it has left to do.
Configuration ==
  [fs |-> fs, allowed |-> allowedPaths, call |-> [calls[1] EXCEPT !.was = {}]]

InitCyclic ==
  /\ \E env \in Envs : cwd = env.cwd /\ tmp = env.tmp
  /\ fs = InitFs(cwd, tmp)
  /\ allowedPaths = {cwd, tmp}
  /\ calls = <<AsyncIdle @@ [was |-> {}]>>

\* FixtureAsync.make(pathIn, content) is called and runs to its first await.
CyclicStart ==
  /\ calls[1].status = "idle"
  /\ \E content \in CyclicFixtures \cup SmallFixtures :
       LET c == [calls[1] EXCEPT !.pathIn = FreshRoot(tmp), !.content = content,
                                 !.before = fs, !.allowedBefore = allowedPaths,
                                 !.was = @ \cup {Configuration}]
           m == kept(content, settle(startNode(Running(c), c.pathIn, content, TRUE)))
       IN /\ allowedPaths' = m.allowed
          /\ calls' = <<Left(c, m)>>
  /\ UNCHANGED <<cwd, tmp, fs>>

\* The operating system performs the operation the call awaits; it refuses
\* a path that is too long.
CyclicPerform ==
  /\ calls[1].status = "issued"
  /\ LET pending == calls[1].pending
         res == IF Len(pending.path.segs) > PathMax
                  THEN FsRes("ENAMETOOLONG", fs)
                ELSE perform(fs, pending)
     IN /\ fs' = res.fs
        /\ calls' = [calls EXCEPT
             ![1].status = "performed",
             ![1].pending.res = res.err,
             ![1].pending.type = IF pending.op = "stat"
                                   THEN symlinkType(fs, pending.path) ELSE @,
             ![1].was = @ \cup {Configuration}]
  /\ UNCHANGED <<cwd, tmp, allowedPaths>>

\* The call resumes after its operation and runs to its next await or its end.
CyclicResume ==
  /\ calls[1].status = "performed"
  /\ LET m == kept(calls[1].content, settle(resume(Running(calls[1])))) IN
     /\ allowedPaths' = m.allowed
     /\ calls' = <<[Left(calls[1], m) EXCEPT !.was = @ \cup {Configuration}]>>
  /\ UNCHANGED <<cwd, tmp, fs>>

NextCyclic == CyclicStart \/ CyclicPerform \/ CyclicResume

SpecCyclic == InitCyclic /\ [][NextCyclic]_vars

(***************************************************************************)
(* The test wrappers: the TestFixtures and TestFixturesAsync singletons    *)
(* under a test runner that runs the tests of a file one after the other   *)
(* and, at the end of a test, calls the hooks that the test registered.    *)
(* calls[1] holds the fields of the singleton the file uses and the state  *)
(* of the runner.  A FixtureAsync.make that no other call interleaves does *)
(* what Fixture.make does.                                                 *)
(***************************************************************************)
MaxTests == 2

MaxDirs == 3

TestContents ==
  { RawDir(0, <<Entry(Rel(<<"a">>), RawStr(Hello))>>),
    RawDir(0, <<Entry(Rel(<<"..", "e">>), RawStr(Hello))>>) }

\* fs.mkdtempSync(join(tmpdir(), 'vitest_')): a directory that is new.
TempNames == <<"vitest_1", "vitest_2", "vitest_3", "vitest_4", "vitest_5",
               "vitest_6", "vitest_7", "vitest_8", "vitest_9", "vitest_10",
               "vitest_11", "vitest_12", "vitest_13", "vitest_14",
               "vitest_15", "vitest_16">>

mkdtemp(f, t, k) ==
  LET dir == Sub(t, TempNames[k]) IN [dir |-> dir, fs |-> Put(f, dir.segs, DirEnt)]

\* A removal that takes a path that is not there for an error.
rmSyncStrict(f, dir) ==
  IF dir.segs \notin DOMAIN f THEN FsRes("ENOENT", f)
  ELSE FsRes("", [q \in {q \in DOMAIN f : ~IsPrefix(dir.segs, q)} |-> f[q]])

\* fs.rmSync(dir, {recursive: true, force: true}): a path that is not there
\* is no error.
rmSync(f, dir) ==
  FsRes("", [q \in {q \in DOMAIN f : ~IsPrefix(dir.segs, q)} |-> f[q]])

\* The message of the error that createTestDir throws: the fixed prefix
\* followed by `${err}` of the error it has caught.
Prefix == "[TestFixtures.createTestDir()] Failed to create test directory: "

FailedToCreate(err) == <<Prefix, err>>

\* What a call of createTestDir has come to: the path it has returned or the
\* message of the error it has thrown, and the error raised inside it.
Returned(dir) == [path |-> dir, err |-> <<>>, cause |-> ""]

Threw(message, cause) == [path |-> NoPath, err |-> message, cause |-> cause]

NoResult == [path |-> NoPath, err |-> <<>>, cause |-> ""]

InitTests ==
  /\ cwd = Abs(<<"w">>) /\ tmp = Abs(<<"t">>)
  /\ fs = InitFs(cwd, tmp)
  /\ allowedPaths = {cwd, tmp}
  /\ \E api \in {"testDir", "testDirAsync"} : \E keep \in BOOLEAN :
       calls = <<[api |-> api, keepFixture |-> keep, testDir |-> NoPath,
                  testFinished |-> FALSE, createdTestDir |-> FALSE,
                  test |-> 0, phase |-> "idle", hooks |-> <<>>,
                  pending |-> <<>>, made |-> <<>>, outside |-> <<>>,
                  removed |-> <<>>, raised |-> "", last |-> NoResult,
                  failed |-> FALSE]>>

\* No test is running: the file is being loaded, or a test is over.
BetweenTests(w) ==
  w.phase = "idle" \/ (w.phase = "ending" /\ w.pending = <<>>)

\* The runner starts the next test of the file.
TestStart ==
  /\ calls[1].test < MaxTests
  /\ BetweenTests(calls[1])
  /\ calls' = <<[calls[1] EXCEPT !.test = @ + 1, !.phase = "body",
                                 !.failed = FALSE,
                                 !.hooks = <<>>, !.pending = <<>>]>>
  /\ UNCHANGED <<cwd, tmp, fs, allowedPaths>>

\* What createTestDir comes to once mkdtemp and Fixture.make have run: tmpd
\* is the directory mkdtemp has made, st is how Fixture.make has ended, and
\* Message(err) is the message of the error thrown for a caught error.
testDirResult(w, f, allowed, tmpd, st, mkErr, inTest, Message(_)) ==
  LET reset == IF w.api = "testDirAsync"
                 THEN [w EXCEPT !.testFinished = FALSE, !.createdTestDir = FALSE]
               ELSE w
      entry == [test |-> w.test, dir |-> tmpd.dir, returned |-> FALSE,
                keep |-> w.keepFixture, touched |-> FALSE]
      record(v, e) == IF inTest THEN [v EXCEPT !.made = Append(@, e)]
                      ELSE [v EXCEPT !.outside = Append(@, e)]
  IN
  IF mkErr # "" THEN
    [w |-> [reset EXCEPT !.last = Threw(Message(mkErr), mkErr)],
     fs |-> f, allowed |-> allowed]
  ELSE IF st.err # "" THEN
    [w |-> record([reset EXCEPT !.testDir = tmpd.dir,
                                !.last = Threw(Message(st.err), st.err)], entry),
     fs |-> st.fs, allowed |-> st.allowed]
  ELSE IF ~inTest /\ w.api = "testDirAsync" THEN
    [w |-> record([reset EXCEPT !.testDir = tmpd.dir, !.createdTestDir = TRUE,
                                !.last = Threw(Message("HooksUnavailable"),
                                               "HooksUnavailable")],
                  entry),
     fs |-> st.fs, allowed |-> st.allowed]
  ELSE
    [w |-> record([reset EXCEPT !.testDir = tmpd.dir, !.createdTestDir = TRUE,
                                !.hooks = IF inTest
                                            THEN @ \o <<"onTestFailed", "onTestFinished">>
                                          ELSE @,
                                !.last = Returned(tmpd.dir)],
                  [entry EXCEPT !.returned = TRUE]),
     fs |-> st.fs, allowed |-> st.allowed]

\* Fixture.make(this.#testDir, content || {}) in the directory of mkdtemp.
makeTestDir(tmpd, allowed, content) ==
  make(St(tmpd.fs, allowed, <<>>, <<>>, ""), tmpd.dir, content, TRUE)

\* A createTestDir that lets the error it has caught go on as it is.
createTestDirBare(w, f, allowed, content, mkErr, inTest) ==
  LET tmpd == mkdtemp(f, tmp, Len(w.made) + Len(w.outside) + 1) IN
  testDirResult(w, f, allowed, tmpd, makeTestDir(tmpd, allowed, content),
                mkErr, inTest, LAMBDA err : <<err>>)

\* A createTestDir that registers its hooks also when Fixture.make has
\* thrown.
createTestDirHooksAnyway(w, f, allowed, content, mkErr, inTest) ==
  LET tmpd == mkdtemp(f, tmp, Len(w.made) + Len(w.outside) + 1)
      r == testDirResult(w, f, allowed, tmpd, makeTestDir(tmpd, allowed, content),
                         mkErr, inTest, FailedToCreate)
  IN
  IF mkErr = "" /\ inTest /\ r.w.last.path = NoPath
    THEN [r EXCEPT !.w.hooks = @ \o <<"onTestFailed", "onTestFinished">>]
  ELSE r

\* createTestDir(content).  mkErr is the error of the mkdtemp, if any;
\* inTest tells whether the call is made in the body of a test: only there
\* do onTestFailed and onTestFinished not throw.  The synchronous wrapper
\* catches what they throw, the asynchronous one does not.
createTestDir(w, f, allowed, content, mkErr, inTest) ==
  LET tmpd == mkdtemp(f, tmp, Len(w.made) + Len(w.outside) + 1) IN
  testDirResult(w, f, allowed, tmpd, makeTestDir(tmpd, allowed, content),
                mkErr, inTest, FailedToCreate)

\* createTestDir({}), called once in the body of the test.
CreateOneTestDir ==
  /\ calls[1].phase = "body"
  /\ \A i \in DOMAIN calls[1].made : calls[1].made[i].test # calls[1].test
  /\ Len(calls[1].made) + Len(calls[1].outside) < Len(TempNames)
  /\ \E r \in {createTestDir(calls[1], fs, allowedPaths, RawDir(0, <<>>), "", TRUE)} :
       /\ fs' = r.fs
       /\ allowedPaths' = r.allowed
       /\ calls' = <<r.w>>
  /\ UNCHANGED <<cwd, tmp>>

\* createTestDir(content), called in the body of the test.
CreateTestDir ==
  /\ calls[1].phase = "body"
  /\ Len(calls[1].made) < MaxDirs
  /\ Len(calls[1].made) + Len(calls[1].outside) < Len(TempNames)
  /\ \E content \in TestContents : \E mkErr \in {"", "EACCES"} :
       \E r \in {createTestDir(calls[1], fs, allowedPaths, content, mkErr, TRUE)} :
       /\ fs' = r.fs
       /\ allowedPaths' = r.allowed
       /\ calls' = <<r.w>>
  /\ UNCHANGED <<cwd, tmp>>

\* createTestDir(content), called where no test is running.
CreateTestDirOutside ==
  /\ BetweenTests(calls[1])
  /\ calls[1].outside = <<>>
  /\ Len(calls[1].made) + Len(calls[1].outside) < Len(TempNames)
  /\ \E r \in {createTestDir(calls[1], fs, allowedPaths, RawDir(0, <<>>), "", FALSE)} :
       /\ fs' = r.fs
       /\ allowedPaths' = r.allowed
       /\ calls' = <<r.w>>
  /\ UNCHANGED <<cwd, tmp>>

\* The body of a test removes the directory it was given.
TestRemovesDir ==
  /\ calls[1].phase = "body"
  /\ calls[1].last.path # NoPath
  /\ calls[1].last.path.segs \in DOMAIN fs
  /\ fs' = rmSync(fs, calls[1].last.path).fs
  /\ UNCHANGED <<cwd, tmp, allowedPaths, calls>>

\* The test ends, failed or not: the hooks to call are the onTestFinished
\* hooks and, for a failed test, the onTestFailed hooks.
TestEnd ==
  /\ calls[1].phase = "body"
  /\ \E failed \in BOOLEAN :
       calls' = <<[calls[1] EXCEPT
                     !.phase = "ending", !.failed = failed,
                     !.pending = SelectSeq(calls[1].hooks,
                                           LAMBDA h : failed \/ h = "onTestFinished")]>>
  /\ UNCHANGED <<cwd, tmp, fs, allowedPaths>>

\* A handler without the #testFinished flag.
handleTestEndEveryTime(w, f) ==
  IF ~w.keepFixture /\ w.testDir # NoPath THEN
    LET rm == rmSync(f, w.testDir) IN
    [w |-> [w EXCEPT !.testFinished = TRUE,
                     !.removed = Append(@, [test |-> w.test, dir |-> w.testDir,
                                            there |-> w.testDir.segs \in DOMAIN f]),
                     !.raised = rm.err],
     fs |-> rm.fs]
  ELSE [w |-> [w EXCEPT !.testFinished = TRUE], fs |-> f]

\* A handler that removes the directory whatever keepFixture is.
handleTestEndRemoving(w, f) ==
  IF ~w.testFinished THEN
    IF w.testDir # NoPath THEN
      LET rm == rmSync(f, w.testDir) IN
      [w |-> [w EXCEPT !.testFinished = TRUE,
                       !.removed = Append(@, [test |-> w.test, dir |-> w.testDir,
                                              there |-> w.testDir.segs \in DOMAIN f]),
                       !.raised = rm.err],
       fs |-> rm.fs]
    ELSE [w |-> [w EXCEPT !.testFinished = TRUE], fs |-> f]
  ELSE [w |-> w, fs |-> f]

\* #handleTestEnd()
handleTestEnd(w, f) ==
  IF ~w.testFinished THEN
    IF ~w.keepFixture /\ w.testDir # NoPath THEN
      LET rm == rmSync(f, w.testDir) IN
      [w |-> [w EXCEPT !.testFinished = TRUE,
                       !.removed = Append(@, [test |-> w.test, dir |-> w.testDir,
                                              there |-> w.testDir.segs \in DOMAIN f]),
                       !.raised = rm.err],
       fs |-> rm.fs]
    ELSE [w |-> [w EXCEPT !.testFinished = TRUE], fs |-> f]
  ELSE [w |-> w, fs |-> f]

\* One of the hooks of the test that has ended is called.
HandleTestEnd ==
  /\ calls[1].phase = "ending"
  /\ \E i \in DOMAIN calls[1].pending :
       LET rest == SubSeq(calls[1].pending, 1, i - 1)
                     \o SubSeq(calls[1].pending, i + 1, Len(calls[1].pending))
           r == handleTestEnd([calls[1] EXCEPT !.pending = rest], fs)
       IN calls' = <<r.w>> /\ fs' = r.fs
  /\ UNCHANGED <<cwd, tmp, allowedPaths>>

NextTests ==
  \/ TestStart
  \/ CreateTestDir
  \/ CreateTestDirOutside
  \/ TestRemovesDir
  \/ TestEnd
  \/ HandleTestEnd

SpecTests == InitTests /\ [][NextTests]_vars

\* testFixtures.keepFixture = keep, in a test or after it, before its hooks
\* are called or between them.
SetKeepFixture ==
  /\ calls[1].phase \in {"body", "ending"}
  /\ \E keep \in BOOLEAN :
       /\ keep # calls[1].keepFixture
       /\ calls' = <<[calls[1] EXCEPT
                        !.keepFixture = keep,
                        !.made = [i \in DOMAIN @ |->
                                    IF @[i].test = calls[1].test
                                         /\ ~(calls[1].phase = "ending"
                                                /\ calls[1].pending = <<>>)
                                      THEN [@[i] EXCEPT !.touched = TRUE]
                                    ELSE @[i]]]>>
  /\ UNCHANGED <<cwd, tmp, fs, allowedPaths>>

NextKeep ==
  \/ TestStart
  \/ CreateOneTestDir
  \/ SetKeepFixture
  \/ TestEnd
  \/ HandleTestEnd

SpecKeep == InitTests /\ [][NextKeep]_vars

(***************************************************************************)
(* Reading a call record.                                                  *)
(***************************************************************************)
TheCall == calls[1]

Done(c) == c.status = "done"

Succeeded(c) == Done(c) /\ c.err = ""

\* The root R of a call: the normalized path it was given.
RootOf(c) == normalize(c.pathIn)

Events(c, ops) == {i \in DOMAIN c.log : c.log[i].op \in ops /\ c.log[i].ok}

FsOps == {"mkdirp", "writeFile", "link", "symlink"}

\* The paths whose entry differs between two filesystems.
Changed(before, after) ==
  {q \in DOMAIN after : q \notin DOMAIN before \/ after[q] # before[q]}

\* The call passed the containment check of its top-level directory.
RootAccepted(c) == Events(c, {"mkdirp"}) # {}

(***************************************************************************)
(* Containment of what a call does in its root.                            *)
(***************************************************************************)
EntriesContained(c) ==
  \A q \in Changed(c.before, fs) : IsPrefix(RootOf(c).segs, q)

OpsContained(c) ==
  \A i \in Events(c, FsOps) :
    c.log[i].path = RootOf(c) \/ StrictlyBelow(c.log[i].path, RootOf(c))

TargetsContained(c) ==
  \A i \in Events(c, {"link", "symlink"}) :
    StrictlyBelow(c.log[i].target, RootOf(c))

\* A symlink to the filesystem root made by a call whose root is the
\* filesystem root: path.dirname('/') is '/'.
IsRootSelfLink(c, e) ==
  e.op = "symlink" /\ RootOf(c) = Abs(<<>>) /\ e.target = RootOf(c)

TargetsContainedButRoot(c) ==
  \A i \in Events(c, {"link", "symlink"}) :
    StrictlyBelow(c.log[i].target, RootOf(c)) \/ IsRootSelfLink(c, c.log[i])

(***************************************************************************)
(* C1 as stated.  In a single top-level make call whose top-level node is  *)
(* a directory at root R, every filesystem entry the call creates or       *)
(* changes is R itself or lies strictly below R, and every target of a     *)
(* hard link or symlink it creates lies strictly below R.                  *)
(***************************************************************************)
C1_Original ==
  Done(TheCall) =>
    /\ EntriesContained(TheCall)
    /\ OpsContained(TheCall)
    /\ TargetsContained(TheCall)

(***************************************************************************)
(* C1  Containment.  Every filesystem entry a top-level make call creates  *)
(* or changes is its root R or lies strictly below R, and every target of  *)
(* a hard link or symlink it creates lies strictly below R, except that a  *)
(* symlink may target R itself when R is the filesystem root.              *)
(***************************************************************************)
C1_Containment ==
  Done(TheCall) =>
    /\ EntriesContained(TheCall)
    /\ OpsContained(TheCall)
    /\ TargetsContainedButRoot(TheCall)

\* A call below the temp directory that created a file, a hard link and a
\* symlink and returned.
C1_Witness ==
  /\ Succeeded(TheCall)
  /\ RootOf(TheCall) = FreshRoot(tmp)
  /\ Events(TheCall, {"writeFile"}) # {}
  /\ Events(TheCall, {"link"}) # {}
  /\ Events(TheCall, {"symlink"}) # {}

(***************************************************************************)
(* The nodes a fixture declares, in the order the walk meets them: the     *)
(* normalized path of each node, its type and, for a hard link or a        *)
(* symlink, its resolved target.                                           *)
(***************************************************************************)
Node(path, type, target) == [path |-> path, type |-> type, target |-> target]

RECURSIVE declared(_, _)
RECURSIVE declaredEntries(_, _)
declared(pathIn, content) ==
  LET path == normalize(pathIn)
      made == rawToFixture(content)
      type == made.fixture.type
  IN
  IF made.err # "" THEN <<>>
  ELSE IF type = "dir" THEN
    <<Node(path, "dir", NoPath)>>
      \o declaredEntries(path, objectEntries(made.fixture.entries))
  ELSE IF type \in {"link", "symlink"} THEN
    <<Node(path, type, resolve(dirname(path), made.fixture.str))>>
  ELSE <<Node(path, type, NoPath)>>

declaredEntries(path, entries) ==
  IF entries = <<>> THEN <<>>
  ELSE declared(join(path, Head(entries).name), Head(entries).value)
         \o declaredEntries(path, Tail(entries))

NodesOf(c) == declared(c.pathIn, c.content)

\* Among the nodes, the hard links and symlinks whose resolved target lies
\* outside the root r: neither the root nor below it.
Escaping(nodes, r) ==
  {i \in DOMAIN nodes :
     nodes[i].type \in {"link", "symlink"} /\ ~Below(nodes[i].target, r)}

\* A later symlink node of the same path replaces the record of node i.
Replaced(nodes, i) ==
  \E j \in DOMAIN nodes :
    j > i /\ nodes[j].type = "symlink" /\ nodes[j].path = nodes[i].path

\* The call checked the path and the check failed.
Rejected(c, path) ==
  \E k \in DOMAIN c.log :
    c.log[k].op = "check" /\ c.log[k].path = path /\ ~c.log[k].ok

Linked(c, node) ==
  \E k \in Events(c, {"link", "symlink"}) :
    c.log[k].path = node.path /\ c.log[k].target = node.target

(***************************************************************************)
(* C2 as stated.  A fixture that requests a hard link or a symlink whose   *)
(* resolved target lies outside R makes the top-level call fail with the   *)
(* 'Illegal path' error, and no entry is created at the link's own path.   *)
(***************************************************************************)
C2_Original ==
  Done(TheCall) =>
    LET nodes == NodesOf(TheCall) IN
    \A i \in Escaping(nodes, RootOf(TheCall)) :
      /\ TheCall.err = "IllegalPath"
      /\ nodes[i].path \notin {Abs(q) : q \in Changed(TheCall.before, fs)}

(***************************************************************************)
(* C2  Escaping links.  A hard link or symlink whose resolved target lies  *)
(* outside R is never created.  A call that declares an escaping hard      *)
(* link, or an escaping symlink that no later symlink entry of the same    *)
(* path replaces, does not succeed; whenever the target of an escaping     *)
(* node is checked, the check fails, it is the last thing the call does,   *)
(* and the call fails with 'Illegal path'.                                 *)
(***************************************************************************)
C2_EscapingLinkFails ==
  Done(TheCall) =>
    LET nodes == NodesOf(TheCall) IN
    \A i \in Escaping(nodes, RootOf(TheCall)) :
      /\ ~Linked(TheCall, nodes[i])
      /\ (nodes[i].type = "link" \/ ~Replaced(nodes, i)) => ~Succeeded(TheCall)
      /\ \A k \in DOMAIN TheCall.log :
           (TheCall.log[k].op = "check" /\ TheCall.log[k].path = nodes[i].target) =>
             /\ ~TheCall.log[k].ok
             /\ k = Len(TheCall.log)
             /\ TheCall.err = "IllegalPath"

\* The final pass reached a symlink to the file outside the root, after a
\* file of the same call had been written, and rejected its target.
C2_Witness ==
  /\ Done(TheCall)
  /\ TheCall.err = "IllegalPath"
  /\ Events(TheCall, {"writeFile"}) # {}
  /\ LET nodes == NodesOf(TheCall) IN
     \E i \in Escaping(nodes, RootOf(TheCall)) :
       /\ nodes[i].type = "symlink"
       /\ nodes[i].target = Outside(tmp)
       /\ Rejected(TheCall, nodes[i].target)

(***************************************************************************)
(* C3  The root check.  The first containment check of a top-level call    *)
(* for a directory at P is the check of the normalized P, and it passes    *)
(* if and only if the parent of the normalized P is the working directory  *)
(* or the temp directory itself; when it does not pass, the call fails     *)
(* with 'Illegal path' and does nothing to the filesystem.                 *)
(***************************************************************************)
RootCheck(c) == c.log[2]

\* The top-level node of the call is a valid directory node.
IsDirCall(c) ==
  rawToFixture(c.content).err = "" /\ rawToFixture(c.content).fixture.type = "dir"

C3_RootCheckIsExactMembership ==
  (Done(TheCall) /\ IsDirCall(TheCall)) =>
    /\ Len(TheCall.log) >= 2
    /\ TheCall.log[1].op = "reset"
    /\ RootCheck(TheCall).op = "check"
    /\ RootCheck(TheCall).path = RootOf(TheCall)
    /\ RootCheck(TheCall).ok <=> dirname(RootOf(TheCall)) \in {cwd, tmp}
    /\ ~RootCheck(TheCall).ok =>
         /\ TheCall.err = "IllegalPath"
         /\ Len(TheCall.log) = 2
         /\ fs = TheCall.before

\* A call for <tmp>/x/.., which normalizes to the temp directory, was
\* rejected although the temp directory is allowed as a parent.
C3_Witness ==
  /\ Done(TheCall)
  /\ TheCall.pathIn = Abs(tmp.segs \o <<"x", "..">>)
  /\ RootOf(TheCall) = tmp
  /\ ~RootCheck(TheCall).ok
  /\ TheCall.err = "IllegalPath"

(***************************************************************************)
(* C4  Reset per call.  In any sequence of top-level calls the             *)
(* allowed-paths set is exactly {cwd, tmpdir} at the first containment     *)
(* check of each call, and a containment check of a call passes only for   *)
(* a parent that is the working directory, the temp directory or a         *)
(* directory this same call has added before: what an earlier call left    *)
(* in the set makes no path writable.                                      *)
(***************************************************************************)
AddedBefore(c, k) ==
  {c.log[j].path : j \in {j \in 1..(k - 1) : c.log[j].op = "add"}}

C4_ResetPerCall ==
  (Done(TheCall) /\ IsDirCall(TheCall)) =>
    /\ RootCheck(TheCall).op = "check"
    /\ RootCheck(TheCall).allowed = {cwd, tmp}
    /\ \A k \in Events(TheCall, {"check"}) :
         dirname(TheCall.log[k].path) \in {cwd, tmp} \cup AddedBefore(TheCall, k)

\* A later call began with the root of an earlier call in the set and was
\* refused a directory directly below that root.
C4_Witness ==
  /\ Done(TheCall)
  /\ TheCall.n > 1
  /\ dirname(RootOf(TheCall)) \in TheCall.allowedBefore \ {cwd, tmp}
  /\ statKind(TheCall.before, dirname(RootOf(TheCall))) = "dir"
  /\ ~RootCheck(TheCall).ok
  /\ TheCall.err = "IllegalPath"

(***************************************************************************)
(* The collapse of the allowed-paths set to the root of the call.          *)
(***************************************************************************)
\* The events at which the top-level directory empties the set.
Collapses(c) == {k \in DOMAIN c.log : c.log[k].op = "clear"}

\* The root has been created and the set is the root alone.
CollapsedToRoot(c, k) ==
  /\ k > 1 /\ k < Len(c.log)
  /\ c.log[k - 1].op = "mkdirp" /\ c.log[k - 1].ok
  /\ c.log[k - 1].path = RootOf(c)
  /\ c.log[k + 1].op = "add"
  /\ c.log[k + 1].allowed = {RootOf(c)}

\* What an event wrote, linked or checked lies directly in directory d.
DirectlyIn(e, d) ==
  e.op \in FsOps \cup {"check"} /\ e.ok /\ dirname(e.path) = d

(***************************************************************************)
(* C5 as stated.  Immediately after R is created the allowed-paths set is  *)
(* exactly {R}, and for the rest of the call neither cwd nor tmpdir is a   *)
(* permitted parent: no node is written directly into cwd or tmpdir.       *)
(***************************************************************************)
C5_Original ==
  (Done(TheCall) /\ IsDirCall(TheCall)) =>
    \A k \in Collapses(TheCall) :
      /\ CollapsedToRoot(TheCall, k)
      /\ \A j \in (k + 1)..Len(TheCall.log) :
           /\ cwd \notin TheCall.log[j].allowed
           /\ tmp \notin TheCall.log[j].allowed
           /\ ~DirectlyIn(TheCall.log[j], cwd)
           /\ ~DirectlyIn(TheCall.log[j], tmp)

(***************************************************************************)
(* C5  Root collapse.  Immediately after R is created the allowed-paths    *)
(* set is exactly {R}; for the rest of the call every permitted parent is  *)
(* R or a directory strictly below R, so cwd and tmpdir are permitted      *)
(* parents only where they are R itself or lie below R, and every node is  *)
(* written, linked or checked with a parent that is R or below R.          *)
(***************************************************************************)
C5_CollapseToRoot ==
  (Done(TheCall) /\ IsDirCall(TheCall)) =>
    /\ Cardinality(Collapses(TheCall)) <= 1
    /\ RootAccepted(TheCall) => Collapses(TheCall) # {}
    /\ \A k \in Collapses(TheCall) :
         /\ CollapsedToRoot(TheCall, k)
         /\ \A j \in (k + 1)..Len(TheCall.log) :
              /\ \A a \in TheCall.log[j].allowed : Below(a, RootOf(TheCall))
              /\ \A d \in {cwd, tmp} :
                   (d \in TheCall.log[j].allowed \/ DirectlyIn(TheCall.log[j], d))
                     => Below(d, RootOf(TheCall))
              /\ (TheCall.log[j].op \in FsOps \cup {"check"} /\ TheCall.log[j].ok)
                   => Below(dirname(TheCall.log[j].path), RootOf(TheCall))

\* A call with a root below the temp directory added a nested directory and
\* was then refused to write the file <tmp>/e directly into the temp
\* directory.
C5_Witness ==
  /\ Done(TheCall)
  /\ RootOf(TheCall) = FreshRoot(tmp)
  /\ \E k \in Collapses(TheCall) :
       \E j \in (k + 2)..Len(TheCall.log) :
         TheCall.log[j].op = "add" /\ StrictlyBelow(TheCall.log[j].path, RootOf(TheCall))
  /\ Rejected(TheCall, Outside(tmp))
  /\ fs[Outside(tmp).segs] = TheCall.before[Outside(tmp).segs]

(***************************************************************************)
(* The two phases of a call: the walk, then the final pass.                *)
(***************************************************************************)
WalkOps == {"mkdirp", "clear", "add", "writeFile", "link", "record"}

FlushOps == {"stat", "symlink"}

\* The symbolic links the filesystem has now and had not, or had otherwise,
\* when the call began.
NewSymlinks(c) ==
  {q \in Changed(c.before, fs) : fs[q].kind = "symlink"}

(***************************************************************************)
(* C7  Two phases.  Within one top-level call nothing of the walk (no      *)
(* directory, file or hard link creation, no recording of a symlink)       *)
(* happens after the final pass has looked at or created its first         *)
(* symlink, and every symlink on disk that the call made was made by the   *)
(* final pass from a recorded symlink.                                     *)
(***************************************************************************)
C7_TwoPhases ==
  Done(TheCall) =>
    /\ \A i, j \in DOMAIN TheCall.log :
         (TheCall.log[i].op \in FlushOps /\ TheCall.log[j].op \in WalkOps) => j < i
    /\ \A q \in NewSymlinks(TheCall) :
         \E i \in Events(TheCall, {"symlink"}) :
           /\ TheCall.log[i].path = Abs(q)
           /\ \E j \in 1..(i - 1) :
                /\ TheCall.log[j].op = "record"
                /\ TheCall.log[j].path = TheCall.log[i].path
    /\ \A i \in Events(TheCall, {"symlink"}) :
         \E r \in DOMAIN TheCall.symlinks :
           /\ TheCall.symlinks[r].path = TheCall.log[i].path
           /\ TheCall.symlinks[r].target = TheCall.log[i].target

\* A symlink was recorded, then a file and a hard link were created, and
\* the symlink was created last.
C7_Witness ==
  /\ Succeeded(TheCall)
  /\ \E i, j, k, l \in DOMAIN TheCall.log :
       /\ i < j /\ j < k /\ k < l
       /\ TheCall.log[i].op = "record"
       /\ TheCall.log[j].op = "writeFile"
       /\ TheCall.log[k].op = "link"
       /\ TheCall.log[l].op = "symlink"
       /\ TheCall.log[l].path = TheCall.log[i].path

(***************************************************************************)
(* Declaration orders of a directory fixture.                              *)
(***************************************************************************)
Remove(es, i) == SubSeq(es, 1, i - 1) \o SubSeq(es, i + 1, Len(es))

InsertAt(es, k, e) == SubSeq(es, 1, k - 1) \o <<e>> \o SubSeq(es, k, Len(es))

\* The mapping with its i-th entry declared at position k instead.
MoveEntry(es, i, k) == InsertAt(Remove(es, i), k, es[i])

PlainName(name) ==
  ~name.abs /\ Len(name.segs) = 1 /\ name.segs[1] \notin {".", ".."}

\* Entry i of the mapping is a symlink whose target is the name of another
\* entry of the same mapping.
SymlinkToSibling(es, i) ==
  /\ rawToFixture(es[i].value).err = ""
  /\ rawToFixture(es[i].value).fixture.type = "symlink"
  /\ \E j \in DOMAIN es : j # i /\ es[j].name = es[i].value.str

\* The call as it would have gone with other entries in the top-level
\* mapping.
Replay(c, es) ==
  make(St(c.before, c.allowedBefore, <<>>, <<>>, ""), c.pathIn,
       [c.content EXCEPT !.entries = es], TRUE)

(***************************************************************************)
(* C8 as stated.  A directory fixture in which a symlink entry targets a   *)
(* sibling entry (of any kind) has the same outcome, success and the       *)
(* resulting tree, wherever the symlink entry is declared.  Stated for     *)
(* fixtures under a fresh root whose entries have plain, distinct names.   *)
(***************************************************************************)
C8_OrderIndependence ==
  (Done(TheCall) /\ IsDirCall(TheCall) /\ TheCall.pathIn = FreshRoot(tmp)) =>
    LET es == TheCall.content.entries IN
    (\A j \in DOMAIN es : PlainName(es[j].name)) =>
      \A i \in {i \in DOMAIN es : SymlinkToSibling(es, i)} :
        \A k \in DOMAIN es :
          LET other == Replay(TheCall, MoveEntry(es, i, k)) IN
          /\ (other.err = "") <=> Succeeded(TheCall)
          /\ Succeeded(TheCall) => other.fs = fs

(***************************************************************************)
(* C9  Missing symlink target.  A pending symlink whose target does not    *)
(* exist makes the call fail and is not created: a symlink is created      *)
(* only right after the check that its target exists has passed, a failed  *)
(* check is the last thing the call does, and the call fails with the      *)
(* error of the missing target.                                            *)
(***************************************************************************)
Pending(c) == {c.symlinks[r] : r \in DOMAIN c.symlinks}

Created(c, sl) ==
  \E i \in Events(c, {"symlink"}) :
    c.log[i].path = sl.path /\ c.log[i].target = sl.target

C9_MissingTargetFails ==
  Done(TheCall) =>
    /\ \A sl \in Pending(TheCall) :
         statKind(fs, sl.target) = "" =>
           /\ ~Succeeded(TheCall)
           /\ ~Created(TheCall, sl)
           /\ sl.path.segs \notin DOMAIN fs \/ fs[sl.path.segs].kind # "symlink"
    /\ \A i \in DOMAIN TheCall.log :
         /\ TheCall.log[i].op = "symlink" =>
              /\ TheCall.log[i - 1].op = "stat"
              /\ TheCall.log[i - 1].ok
              /\ TheCall.log[i - 1].path = TheCall.log[i].target
         /\ (TheCall.log[i].op = "stat" /\ ~TheCall.log[i].ok) =>
              /\ i = Len(TheCall.log)
              /\ TheCall.err = "MissingTarget"
              /\ statKind(fs, TheCall.log[i].path) = ""

\* The final pass created one symlink and then met a pending symlink whose
\* target does not exist: the call failed and nothing is at its path.
C9_Witness ==
  /\ Done(TheCall)
  /\ TheCall.err = "MissingTarget"
  /\ Events(TheCall, {"symlink"}) # {}
  /\ \E sl \in Pending(TheCall) :
       /\ statKind(fs, sl.target) = ""
       /\ sl.path.segs \notin DOMAIN fs

(***************************************************************************)
(* The tree a fixture of directories and files describes: every node with  *)
(* the path its names spell out below the root.                            *)
(***************************************************************************)
KindOf(v) ==
  IF v.tagged THEN v.type
  ELSE IF v.js = "object" THEN "dir"
  ELSE IF v.js \in {"string", "buffer", "uint8array"} THEN "file"
  ELSE "none"

\* A name without a path separator.
OneSegment(name) == ~name.abs /\ ~name.trail /\ Len(name.segs) = 1

RECURSIVE FilesAndDirs(_)
FilesAndDirs(v) ==
  \/ KindOf(v) = "file"
  \/ /\ KindOf(v) = "dir"
     /\ \A i \in DOMAIN v.entries :
          OneSegment(v.entries[i].name) /\ FilesAndDirs(v.entries[i].value)

RECURSIVE PlainNames(_)
PlainNames(v) ==
  \A i \in DOMAIN v.entries :
    PlainName(v.entries[i].name) /\ PlainNames(v.entries[i].value)

RECURSIVE treeOf(_, _)
treeOf(segs, v) ==
  IF KindOf(v) = "dir" THEN
    {[segs |-> segs, kind |-> "dir", data |-> NoStr]}
      \cup UNION { treeOf(Append(segs, v.entries[i].name.segs[1]), v.entries[i].value) :
                   i \in DOMAIN v.entries }
  ELSE {[segs |-> segs, kind |-> "file", data |-> v.str]}

(***************************************************************************)
(* C10  Round trip.  A successful top-level call for a fixture made only   *)
(* of directories and files, under a root that did not exist, leaves what  *)
(* was there untouched and adds exactly the tree of the fixture: every     *)
(* directory node as a directory, every file node as a file with the       *)
(* declared content, and nothing else.  With names other than '.' and      *)
(* '..' the call does succeed.                                             *)
(***************************************************************************)
C10_RoundTrip ==
  (/\ Done(TheCall)
   /\ TheCall.pathIn = FreshRoot(tmp)
   /\ FreshRoot(tmp).segs \notin DOMAIN TheCall.before
   /\ FilesAndDirs(TheCall.content)) =>
    LET tree == treeOf(FreshRoot(tmp).segs, TheCall.content) IN
    /\ PlainNames(TheCall.content) => Succeeded(TheCall)
    /\ Succeeded(TheCall) =>
         /\ DOMAIN fs = DOMAIN TheCall.before \cup {n.segs : n \in tree}
         /\ \A q \in DOMAIN TheCall.before : fs[q] = TheCall.before[q]
         /\ \A n \in tree :
              fs[n.segs].kind = n.kind /\ fs[n.segs].data = n.data

\* A tree with a file and a directory at the top and a file in the
\* directory has been made.
C10_Witness ==
  /\ Succeeded(TheCall)
  /\ TheCall.pathIn = FreshRoot(tmp)
  /\ FilesAndDirs(TheCall.content)
  /\ \E q \in Changed(TheCall.before, fs) :
       Len(q) = Len(FreshRoot(tmp).segs) + 2 /\ fs[q].kind = "file"
  /\ \E q \in Changed(TheCall.before, fs) :
       Len(q) = Len(FreshRoot(tmp).segs) + 1 /\ fs[q].kind = "file"

(***************************************************************************)
(* Two calls in flight on the one allowed-paths set.                       *)
(***************************************************************************)
Other(i) == 3 - i

\* The set as call c alone would have it at its event k.
Own(c, k) ==
  IF \E j \in 1..(k - 1) : c.log[j].op = "clear" THEN AddedBefore(c, k)
  ELSE {cwd, tmp}

\* Event k of call c is a refused check of a path in a directory that the
\* call has made and added below its root.
FailsInside(c, k) ==
  /\ c.log[k].op = "check" /\ ~c.log[k].ok
  /\ StrictlyBelow(c.log[k].path, RootOf(c))
  /\ dirname(c.log[k].path) \in AddedBefore(c, k)

\* Event k of call c is a file written or a hard link made with its path or
\* its target not below the root of the call.
EscapesRoot(c, k) ==
  /\ c.log[k].op \in {"writeFile", "link"} /\ c.log[k].ok
  /\ \/ ~StrictlyBelow(c.log[k].path, RootOf(c))
     \/ c.log[k].op = "link" /\ ~StrictlyBelow(c.log[k].target, RootOf(c))

\* Up to event k call c made a check on a set that is not its own.
Interfered(c, k) ==
  \E j \in 1..k : c.log[j].op = "check" /\ c.log[j].allowed # Own(c, j)

(***************************************************************************)
(* C6  The race of two calls in flight.  A FixtureAsync.make call is       *)
(* refused a node inside its own root, or writes a file or makes a hard    *)
(* link outside its own root, only when the other call has been started    *)
(* and has changed the allowed-paths set under it; and there are           *)
(* interleavings in which that happens (C6_Witness).                       *)
(***************************************************************************)
C6_RaceOnAllowedPaths ==
  \A i \in AsyncCalls :
    \A k \in DOMAIN calls[i].log :
      (FailsInside(calls[i], k) \/ EscapesRoot(calls[i], k)) =>
        /\ calls[Other(i)].status # "idle"
        /\ Interfered(calls[i], k)

\* One call has overwritten the file <tmp>/e outside its root after the
\* reset of the other call.
C6_Witness ==
  \E i \in AsyncCalls :
    /\ \E k \in DOMAIN calls[i].log :
         /\ EscapesRoot(calls[i], k)
         /\ calls[i].log[k].path = Outside(tmp)
    /\ fs[Outside(tmp).segs].data = Hello
    /\ calls[i].status = "done" /\ calls[i].err = ""

(***************************************************************************)
(* Hard links and what they are resolved against.                          *)
(***************************************************************************)
\* The hard-link nodes of a fixture: the path of each and the string it
\* was given as target.
RECURSIVE linkStrings(_, _)
linkStrings(path, v) ==
  IF KindOf(v) = "link" THEN {[path |-> path, str |-> v.str]}
  ELSE IF KindOf(v) = "dir" THEN
    UNION { linkStrings(normalize(join(path, v.entries[i].name)), v.entries[i].value) :
            i \in DOMAIN v.entries }
  ELSE {}

\* The target string read from the directory the link itself is in.
AgainstParent(path, str) ==
  IF str.abs THEN normalize(P(TRUE, str.segs, FALSE))
  ELSE normalize(P(path.abs, Front(path.segs) \o str.segs, FALSE))

\* Before event k the call wrote a file at the path.
WrittenBefore(c, k, path) ==
  \E j \in 1..(k - 1) :
    c.log[j].op = "writeFile" /\ c.log[j].ok /\ c.log[j].path = path

SameFile(f, p, q) ==
  /\ p.segs \in DOMAIN f /\ q.segs \in DOMAIN f
  /\ f[p.segs].kind = "file" /\ f[q.segs].kind = "file"
  /\ f[p.segs].data = f[q.segs].data
  /\ f[p.segs].ino = f[q.segs].ino

(***************************************************************************)
(* C11  Hard-link resolution.  The target of a hard-link node at P is the  *)
(* target string resolved against the parent directory of P; when that is  *)
(* a file the same call has written before, inside the root, the link is   *)
(* made and P reads back the content of the target.                        *)
(***************************************************************************)
C11_HardLinkAgainstParent ==
  Done(TheCall) =>
    LET nodes == NodesOf(TheCall)
        links == linkStrings(RootOf(TheCall), TheCall.content)
    IN
    /\ \A k \in DOMAIN TheCall.log :
         TheCall.log[k].op = "check" =>
           \/ \E i \in DOMAIN nodes :
                \/ TheCall.log[k].path = nodes[i].path
                \/ nodes[i].type = "symlink" /\ TheCall.log[k].path = nodes[i].target
           \/ \E n \in links : TheCall.log[k].path = AgainstParent(n.path, n.str)
    /\ \A k \in DOMAIN TheCall.log :
         TheCall.log[k].op = "link" =>
           /\ \E n \in links :
                /\ n.path = TheCall.log[k].path
                /\ TheCall.log[k].target = AgainstParent(n.path, n.str)
           /\ (/\ WrittenBefore(TheCall, k, TheCall.log[k].target)
               /\ StrictlyBelow(TheCall.log[k].target, RootOf(TheCall))
               /\ TheCall.log[k].path.segs \notin DOMAIN TheCall.before) =>
                /\ TheCall.log[k].ok
                /\ SameFile(fs, TheCall.log[k].path, TheCall.log[k].target)

\* {a: 'hello', c: {l: link('../a')}} has been made: <root>/c/l is the
\* file <root>/a.
C11_Witness ==
  /\ Succeeded(TheCall)
  /\ RootOf(TheCall) = FreshRoot(tmp)
  /\ \E k \in Events(TheCall, {"link"}) :
       /\ TheCall.log[k].path = Sub(Sub(FreshRoot(tmp), "c"), "l")
       /\ TheCall.log[k].target = Sub(FreshRoot(tmp), "a")
  /\ SameFile(fs, Sub(Sub(FreshRoot(tmp), "c"), "l"), Sub(FreshRoot(tmp), "a"))
  /\ fs[Sub(FreshRoot(tmp), "a").segs].data = Hello

(***************************************************************************)
(* Reading a constructor record.                                           *)
(***************************************************************************)
IsMapping(v) == v.js \in {"object", "array"}

Values(v) == {v.entries[i] : i \in DOMAIN v.entries}

\* The entries of v, at any depth, whose value is the object d: the names
\* through which d is reached again from inside v.
RECURSIVE refsBack(_, _)
refsBack(v, d) ==
  UNION { IF IsMapping(e.value) /\ e.value.oid = d THEN {e.name}
          ELSE IF rawToType(e.value) = "dir" /\ IsMapping(e.value)
            THEN refsBack(e.value, d)
          ELSE {} : e \in Values(v) }

\* Every entry of v, at any depth, is a string, a byte sequence, a mapping
\* or a Fixture.
RECURSIVE wellTyped(_)
wellTyped(v) ==
  \A e \in Values(v) :
    /\ e.value.tagged \/ e.value.js \in {"string", "buffer", "uint8array", "object"}
    /\ e.value.js = "object" => wellTyped(e.value)

NewDir(c) == Done(c) /\ c.type = "dir" /\ c.content.js = "object"

\* C12: a directory mapping D that holds, at any depth, a reference back to
\* D itself cannot be made into a 'dir' fixture: the constructor throws
\* 'Cycle detected', and the message names an entry through which D was
\* reached again.
C12_CycleDetected ==
  (NewDir(TheCall) /\ wellTyped(TheCall.content)
     /\ refsBack(TheCall.content, TheCall.content.oid) # {}) =>
    /\ TheCall.err = "CycleDetected"
    /\ TheCall.at \in refsBack(TheCall.content, TheCall.content.oid)

\* The positions in v of the raw mappings that validation walks: the entry
\* names from v down to the mapping, with the identity of the mapping.
RECURSIVE rawPositions(_, _)
rawPositions(v, pos) ==
  UNION { IF e.value.js = "object" /\ ~e.value.tagged
            THEN {[pos |-> Append(pos, e.name), oid |-> e.value.oid]}
                   \cup rawPositions(e.value, Append(pos, e.name))
          ELSE {} : e \in Values(v) }

\* The positions in v of every directory mapping, those that are the content
\* of a Fixture instance included.
RECURSIVE dirPositions(_, _)
dirPositions(v, pos) ==
  UNION { IF e.value.js = "object" /\ rawToType(e.value) = "dir"
            THEN {[pos |-> Append(pos, e.name), oid |-> e.value.oid]}
                   \cup dirPositions(e.value, Append(pos, e.name))
          ELSE {} : e \in Values(v) }

\* The positions of a set at which some mapping is for the second time, but
\* not below itself: a mapping that is shared.
SharedAt(positions) ==
  { q \in positions :
      \E p \in positions :
        /\ p.oid = q.oid /\ p.pos # q.pos
        /\ ~IsPrefix(p.pos, q.pos) /\ ~IsPrefix(q.pos, p.pos) }

NoCycle(v) == \A p \in dirPositions(v, <<>>) \cup {[pos |-> <<>>, oid |-> v.oid]} :
                \A q \in dirPositions(v, <<>>) :
                  (p.oid = q.oid /\ p.pos # q.pos) => ~IsPrefix(p.pos, q.pos)

FixtureTypes == {"file", "dir", "link", "symlink"}

ShapeMatches(type, content) ==
  IF type = "file" THEN content.js \in {"string", "buffer", "uint8array"}
  ELSE IF type \in {"link", "symlink"} THEN content.js = "string"
  ELSE IF type = "dir" THEN content.js = "object"
  ELSE FALSE

\* C14: new Fixture(kind, content) with a kind that is none of the four
\* throws the invalid-type error; with a content whose shape does not match
\* the kind (for 'dir': a string, a number, null, an array, a byte
\* sequence) it throws; and a construction that is accepted gives a node
\* with the given kind and the given content.
C14_AcceptsExactlyMatchingShape ==
  Done(TheCall) =>
    /\ TheCall.type \notin FixtureTypes => TheCall.err = "InvalidType"
    /\ ~ShapeMatches(TheCall.type, TheCall.content) => TheCall.err # ""
    /\ TheCall.err = "" =>
         /\ TheCall.fixture.type = TheCall.type
         /\ [TheCall.fixture EXCEPT !.tagged = FALSE, !.type = ""] = TheCall.content

\* C15: new Fixture('link', '') and new Fixture('symlink', '') throw: the
\* target of a link is a string that is not empty.
C15_EmptyTargetRejected ==
  (Done(TheCall) /\ TheCall.type \in {"link", "symlink"}
     /\ TheCall.content = RawStr(NoStr)) =>
    TheCall.err # ""

\* The entries that validation comes to in a directory content with no
\* error before them, in the order it comes to them.
RECURSIVE visited(_)
visited(es) ==
  IF es = <<>> THEN <<>>
  ELSE LET v == Head(es).value IN
    <<Head(es)>>
      \o (IF v.js = "object" /\ ~v.tagged THEN visited(objectEntries(v.entries))
          ELSE <<>>)
      \o visited(Tail(es))

\* The entries of the content of a call up to the first one that is neither
\* a string, a byte sequence, a key-value mapping nor a Fixture.
FirstOther(c) ==
  LET es == visited(objectEntries(c.content.entries))
      bad == {i \in DOMAIN es :
                ~es[i].value.tagged
                  /\ es[i].value.js \notin {"string", "buffer", "uint8array", "object"}}
  IN IF bad = {} THEN <<>>
     ELSE <<es[CHOOSE i \in bad : \A j \in bad : i <= j]>>

\* C16: in a directory content that has no cycle and nothing shared, the
\* first entry, at any depth, whose raw value is a number, a boolean, null,
\* undefined or an array makes the constructor throw 'Invalid fixture
\* content' with that value in the message; strings, byte sequences,
\* mappings and Fixture instances as entries are accepted.
C16_OtherRawValuesRejected ==
  (NewDir(TheCall) /\ NoCycle(TheCall.content)
     /\ SharedAt(rawPositions(TheCall.content, <<>>)) = {}) =>
    IF FirstOther(TheCall) = <<>> THEN TheCall.err = ""
    ELSE /\ TheCall.err = "InvalidContent"
         /\ TheCall.what = FirstOther(TheCall)[1].value.str

\* Directories and files only, whatever the names.
RECURSIVE OnlyFilesAndDirs(_)
OnlyFilesAndDirs(v) ==
  \/ KindOf(v) = "file"
  \/ /\ KindOf(v) = "dir"
     /\ \A i \in DOMAIN v.entries : OnlyFilesAndDirs(v.entries[i].value)

MadeTwice == Len(calls) = 2 /\ Done(calls[1]) /\ Done(calls[2])

\* C17: when a top-level call for a fixture of directories and files has
\* succeeded, the same call made again succeeds too, and it leaves the
\* filesystem as the first call left it.
C17_SecondRunSameTree ==
  (MadeTwice /\ OnlyFilesAndDirs(TheCall.content) /\ Succeeded(calls[2])) =>
    /\ Succeeded(TheCall)
    /\ fs = TheCall.before

\* The second call came to a directory that was there and to files that
\* were there, and wrote them again.
C17_Witness ==
  /\ MadeTwice /\ OnlyFilesAndDirs(TheCall.content)
  /\ Succeeded(calls[2]) /\ Succeeded(TheCall)
  /\ TheCall.before # calls[2].before
  /\ \E k \in Events(TheCall, {"mkdirp"}) :
       /\ TheCall.log[k].path # RootOf(TheCall)
       /\ TheCall.log[k].path.segs \in DOMAIN TheCall.before
  /\ \E k \in Events(TheCall, {"writeFile"}) :
       /\ StrictlyBelow(TheCall.log[k].path, RootOf(TheCall))
       /\ TheCall.log[k].path.segs \in DOMAIN TheCall.before
  /\ fs = TheCall.before

ValidationErrors == {"InvalidContent", "TypeError", "CycleDetected", "InvalidType"}

\* The events of the walk that stand for a node that was handled: its
\* directory, file or hard link created, its symlink recorded.
NodeOps == {"mkdirp", "writeFile", "link", "record"}

NodeEvents(c) == SelectSeq(c.log, LAMBDA e : e.op \in NodeOps /\ e.ok)

SymlinkEvents(c) == SelectSeq(c.log, LAMBDA e : e.op = "symlink" /\ e.ok)

\* The call was ended by a check of checkIfPathIsAllowed.
IllegalPathAt(c) ==
  /\ Done(c) /\ c.err = "IllegalPath" /\ c.log # <<>>
  /\ Last(c.log).op = "check" /\ ~Last(c.log).ok

\* What an event of a filesystem operation has made is there.
Kept(f, e) ==
  IF e.op = "mkdirp" THEN statKind(f, e.path) = "dir"
  ELSE IF e.op = "writeFile" THEN statKind(f, e.path) = "file"
  ELSE IF e.op = "link" THEN SameFile(f, e.path, e.target)
  ELSE /\ realpath(f, e.path.segs, FALSE).segs \in DOMAIN f
       /\ f[realpath(f, e.path.segs, FALSE).segs].kind = "symlink"

\* C18 as stated: a call that fails on validation or containment has
\* created the entries before the failing node, no entry after it, and no
\* symlink.
C18_Original ==
  (Done(TheCall) /\ TheCall.err \in ValidationErrors \cup {"IllegalPath"}) =>
    LET nodes == NodesOf(TheCall)
        done == NodeEvents(TheCall)
    IN
    /\ SymlinkEvents(TheCall) = <<>>
    /\ Len(done) < Len(nodes) \/ nodes = <<>>
    /\ \A j \in DOMAIN done : done[j].path = nodes[j].path
    /\ \A k \in Events(TheCall, FsOps) : Kept(fs, TheCall.log[k])

\* C18: a call whose content is refused by the constructor fails before it
\* does anything.  A call that is ended by a containment check has nothing
\* in its log after that check, and what it has created before stays.  When
\* the check is for a directory, file or hard link, the nodes before it in
\* depth-first order have been handled in that order, the nodes from it on
\* have not, and no symlink has been created.  When the check is for a
\* symlink it is made in the final pass: every node has been handled, the
\* symlinks recorded before the failing one have been created in the order
\* of the table, and the failing one and those after it have not.
C18_AbortNoRollback ==
  /\ (Done(TheCall) /\ TheCall.err \in ValidationErrors) =>
       TheCall.log = <<>> /\ fs = TheCall.before
  /\ (Done(TheCall) /\ TheCall.err = "IllegalPath") =>
       LET nodes == NodesOf(TheCall)
           done == NodeEvents(TheCall)
           made == SymlinkEvents(TheCall)
           table == TheCall.symlinks
           at == Last(TheCall.log).path
       IN
       /\ IllegalPathAt(TheCall)
       /\ \A k \in Events(TheCall, FsOps) : Kept(fs, TheCall.log[k])
       /\ Len(done) <= Len(nodes)
       /\ \A j \in DOMAIN done : done[j].path = nodes[j].path
       /\ Len(done) < Len(nodes) =>
            /\ made = <<>>
            /\ nodes[Len(done) + 1].type # "symlink"
            /\ at \in {nodes[Len(done) + 1].path, nodes[Len(done) + 1].target}
       /\ Len(done) = Len(nodes) =>
            /\ Len(made) < Len(table)
            /\ \A j \in DOMAIN made :
                 made[j].path = table[j].path /\ made[j].target = table[j].target
            /\ at \in {table[Len(made) + 1].path, table[Len(made) + 1].target}

\* A call was ended by the check of its third node, a hard link, after it
\* had made the root and written a file that is still there.
C18_Witness ==
  /\ IllegalPathAt(TheCall)
  /\ Len(NodeEvents(TheCall)) = 2
  /\ Len(NodesOf(TheCall)) = 4
  /\ NodesOf(TheCall)[3].type = "link"
  /\ TheCall.symlinks = <<>>
  /\ \E k \in Events(TheCall, {"writeFile"}) :
       /\ TheCall.log[k].path.segs \notin DOMAIN TheCall.before
       /\ TheCall.log[k].path.segs \in DOMAIN fs

\* Before event k, with nothing but checks and the stat of a symlink target
\* in between, a check of `path` has passed on a set that holds its parent.
CheckedJustBefore(c, k, path) ==
  \E j \in 1..(k - 1) :
    /\ c.log[j].op = "check" /\ c.log[j].ok /\ c.log[j].path = path
    /\ dirname(path) \in c.log[j].allowed
    /\ \A i \in (j + 1)..(k - 1) : c.log[i].op \in {"check", "stat"}

\* C19: a check fails exactly when the parent of the checked path is not in
\* the allowed set; a failed check ends the call with 'Illegal path' and is
\* the last thing the call does; and every filesystem operation of a node,
\* whatever its kind, comes directly after the passed checks of the node's
\* path and, for a hard link or symlink, of its target.  So a node that is
\* rejected has done nothing to the filesystem.
C19_CheckBeforeMutate ==
  Done(TheCall) =>
    /\ \A k \in DOMAIN TheCall.log :
         TheCall.log[k].op = "check" =>
           /\ TheCall.log[k].ok <=> dirname(TheCall.log[k].path) \in TheCall.log[k].allowed
           /\ ~TheCall.log[k].ok =>
                k = Len(TheCall.log) /\ TheCall.err = "IllegalPath"
    /\ TheCall.err = "IllegalPath" => IllegalPathAt(TheCall)
    /\ \A k \in DOMAIN TheCall.log :
         TheCall.log[k].op \in FsOps =>
           /\ CheckedJustBefore(TheCall, k, TheCall.log[k].path)
           /\ TheCall.log[k].op \in {"link", "symlink"} =>
                CheckedJustBefore(TheCall, k, TheCall.log[k].target)

\* A file node was rejected after the root and a directory below it had
\* been made: nothing is at the path of the file.
C19_Witness ==
  /\ IllegalPathAt(TheCall)
  /\ Len(NodeEvents(TheCall)) >= 2
  /\ Len(NodeEvents(TheCall)) < Len(NodesOf(TheCall))
  /\ NodesOf(TheCall)[Len(NodeEvents(TheCall)) + 1].type = "file"
  /\ Last(TheCall.log).path = NodesOf(TheCall)[Len(NodeEvents(TheCall)) + 1].path
  /\ statKind(fs, Last(TheCall.log).path) = ""
  /\ \A k \in DOMAIN TheCall.log :
       TheCall.log[k].op \in FsOps => TheCall.log[k].path # Last(TheCall.log).path

\* The test n of the file is over: its hooks have been called.
TestOver(n) ==
  \/ calls[1].test > n
  \/ calls[1].test = n /\ calls[1].phase = "ending" /\ calls[1].pending = <<>>

\* The directories that testDir() / testDirAsync() has returned to the tests
\* that have called it once.
TestDirs ==
  { m \in {calls[1].made[i] : i \in DOMAIN calls[1].made} :
      /\ m.returned
      /\ \A i \in DOMAIN calls[1].made :
           calls[1].made[i].test = m.test => calls[1].made[i] = m }

\* C20: with keepFixture false, the directory that testDir() or
\* testDirAsync() made for a test is gone when the hooks of that test have
\* been called, for the first test of a file and for every later one.
C20_CleanupEveryTest ==
  ~calls[1].keepFixture =>
    \A m \in TestDirs : TestOver(m.test) => m.dir.segs \notin DOMAIN fs

Made == {calls[1].made[i] : i \in DOMAIN calls[1].made}

\* The handler of the test of m finds #testFinished false: the wrapper is
\* the asynchronous one, or m is the first directory of the file.
FirstCleanup(m) == calls[1].api = "testDirAsync" \/ m = calls[1].made[1]

\* C21: whether the directory of a test is deleted at the end of the test
\* is settled by the value keepFixture had when createTestDir was called;
\* setting keepFixture after the call changes nothing.
C21_KeepFixtureReadAtCreation ==
  \A m \in Made :
    (m.returned /\ TestOver(m.test)) =>
      /\ m.keep => m.dir.segs \in DOMAIN fs
      /\ (~m.keep /\ FirstCleanup(m)) => m.dir.segs \notin DOMAIN fs

\* C22: a directory that createTestDir has returned while keepFixture was
\* true is there as long as keepFixture has not been set since, and so
\* after the hooks of its test have been called, whichever they are and in
\* whatever order they come.
C22_KeptWhenKeepFixture ==
  \A m \in Made :
    (m.returned /\ m.keep /\ ~m.touched) => m.dir.segs \in DOMAIN fs

\* A test that had its directory with keepFixture true has failed, both of
\* its hooks have been called, and the directory is there.
C22_Witness ==
  \E m \in Made :
    /\ m.returned /\ m.keep /\ ~m.touched
    /\ m.test = calls[1].test /\ TestOver(m.test) /\ calls[1].failed
    /\ calls[1].testFinished
    /\ Len(calls[1].hooks) = 2
    /\ m.dir.segs \in DOMAIN fs

\* C23: the hooks of one test make the handler remove a directory at most
\* once, and the handler raises nothing, also when the directory it is to
\* remove is not there any more.
C23_CleanupOncePerTest ==
  /\ \A i, j \in DOMAIN calls[1].removed :
       calls[1].removed[i].test = calls[1].removed[j].test => i = j
  /\ calls[1].raised = ""

\* A test that has removed its directory itself has failed; both of the
\* hooks of its one call have been called, and the one removal there was
\* found no directory.
C23_Witness ==
  /\ calls[1].phase = "ending" /\ calls[1].pending = <<>> /\ calls[1].failed
  /\ Len(calls[1].hooks) = 2
  /\ calls[1].testFinished
  /\ \E i \in DOMAIN calls[1].removed :
       /\ calls[1].removed[i].test = calls[1].test
       /\ ~calls[1].removed[i].there
  /\ calls[1].raised = ""

MadeOutside == {calls[1].outside[i] : i \in DOMAIN calls[1].outside}

\* C24: a createTestDir that is called where onTestFailed and
\* onTestFinished throw returns the directory it has created all the same,
\* in the synchronous and in the asynchronous wrapper.
C24_SucceedsWithoutHooks ==
  \A o \in MadeOutside : o.returned

\* C25: a createTestDir in which mkdtemp, Fixture.make or a hook
\* registration has raised an error throws a new error whose message is the
\* fixed prefix followed by the description of that error, and returns no
\* path; a createTestDir that returns a path has caught no error.
C25_ErrorsAreWrapped ==
  LET last == calls[1].last IN
  /\ last.cause # "" =>
       /\ last.path = NoPath
       /\ Len(last.err) = 2
       /\ last.err[1] = "[TestFixtures.createTestDir()] Failed to create test directory: "
       /\ last.err[2] = last.cause
  /\ last.cause = "" => last.err = <<>>
  /\ last.path # NoPath => last.err = <<>>

\* Fixture.make has thrown 'Illegal path' in a createTestDir, after the
\* temp directory had been made, and the call has thrown the wrapped error.
C25_Witness ==
  /\ calls[1].last.cause = "IllegalPath"
  /\ calls[1].last.err = FailedToCreate("IllegalPath")
  /\ calls[1].last.path = NoPath
  /\ calls[1].testDir.segs \in DOMAIN fs
  /\ ~calls[1].made[Len(calls[1].made)].returned

InFlight(i) == calls[i].status \in {"issued", "performed"}

RecordedBy(i) ==
  {calls[i].log[k].path : k \in {k \in DOMAIN calls[i].log :
                                    calls[i].log[k].op = "record"}}

\* C26 as stated: two top-level FixtureAsync.make calls in flight at the
\* same time have one table of pending symlinks.
C26_Original ==
  (InFlight(1) /\ InFlight(2)) => calls[1].symlinks = calls[2].symlinks

\* C26: the table of pending symlinks belongs to the top-level call.  It
\* holds the symlinks the walk of that call has recorded and no others, the
\* final pass of the call goes through that table, and every symlink a call
\* creates is one it has recorded itself, whatever another call in flight
\* has recorded.
C26_TablePerCall ==
  \A i \in AsyncCalls :
    /\ \A k \in DOMAIN calls[i].symlinks : calls[i].symlinks[k].path \in RecordedBy(i)
    /\ \A k \in DOMAIN calls[i].flush : calls[i].flush[k].path \in RecordedBy(i)
    /\ \A k \in DOMAIN calls[i].log :
         calls[i].log[k].op = "symlink" => calls[i].log[k].path \in RecordedBy(i)

\* One call has finished its final pass and has created its symlink while
\* the other call was in flight with a symlink of its own recorded.
C26_Witness ==
  \E i, j \in AsyncCalls :
    /\ i # j
    /\ calls[i].status = "done" /\ calls[i].err = ""
    /\ \E k \in DOMAIN calls[i].log :
         calls[i].log[k].op = "symlink" /\ calls[i].log[k].ok
    /\ InFlight(j) /\ calls[j].symlinks # <<>>
    /\ \A k \in DOMAIN calls[j].symlinks : calls[j].symlinks[k].path.segs \notin DOMAIN fs
    /\ Len(calls[i].flush) = 1

\* The order of Object.entries, from the rank of each entry: an
\* integer-like name ranks by its value, every other name after those, by
\* its place in the mapping.
RankOf(es, k) ==
  IF /\ ~es[k].name.abs /\ ~es[k].name.trail /\ Len(es[k].name.segs) = 1
     /\ es[k].name.segs[1] \in {"0", "1", "2"}
    THEN CASE es[k].name.segs[1] = "0" -> 0
           [] es[k].name.segs[1] = "1" -> 1
           [] OTHER -> 2
  ELSE 3 + k

ByRank(es) ==
  LET n == Len(es)
      f == CHOOSE f \in [1..n -> 1..n] :
             \A i, j \in 1..n : i < j => RankOf(es, f[i]) < RankOf(es, f[j])
  IN [i \in 1..n |-> es[f[i]]]

RECURSIVE preorder(_, _, _)
RECURSIVE preorderAll(_, _, _)
\* The nodes of a content in depth-first order, a directory before its
\* entries, the entries as declared or by rank: [op, path] of each node.
preorder(pathIn, content, asDeclared) ==
  LET fixture == rawToFixture(content).fixture
      normalizedPath == normalize(pathIn)
      node(op) == <<[op |-> op, path |-> normalizedPath]>>
  IN
  IF fixture.type = "dir" THEN
    node("mkdirp") \o
    preorderAll(normalizedPath,
                IF asDeclared THEN fixture.entries ELSE ByRank(fixture.entries),
                asDeclared)
  ELSE IF fixture.type = "file" THEN node("writeFile")
  ELSE IF fixture.type = "link" THEN node("link")
  ELSE node("record")

preorderAll(dir, es, asDeclared) ==
  IF es = <<>> THEN <<>>
  ELSE preorder(join(dir, Head(es).name), Head(es).value, asDeclared)
         \o preorderAll(dir, Tail(es), asDeclared)

WalkOf(log) ==
  LET nodes == SelectSeq(log, LAMBDA e : e.op \in NodeOps) IN
  [k \in DOMAIN nodes |-> [op |-> nodes[k].op, path |-> nodes[k].path]]

Valid(c) == rawToFixture(c.content).err = ""

\* The seen of a call is the depth-first order as far as the call has come,
\* and the whole of it when the call has succeeded; a call in flight awaits
\* the operation of the node that is next in that order, or one of the final
\* pass.
InDepthFirstOrder(c, asDeclared) ==
  LET expected == preorder(c.pathIn, c.content, asDeclared) IN
  /\ IsPrefix(WalkOf(c.log), expected)
  /\ (c.status = "done" /\ c.err = "") => WalkOf(c.log) = expected
  /\ IsPrefix(WalkOf(c.sync.log), expected)
  /\ c.sync.err = "" => WalkOf(c.sync.log) = expected
  /\ (c.status = "issued" /\ c.pending.op \in NodeOps) =>
       IsPrefix(Append(WalkOf(c.log), [op |-> c.pending.op, path |-> c.pending.path]),
                expected)
  /\ (c.status = "issued" /\ c.pending.op \notin NodeOps) =>
       /\ c.pending.op \in FlushOps
       /\ WalkOf(c.log) = expected
  /\ c.status = "performed" => c.log[Len(c.log)].op = c.pending.op

\* C27 as stated: the entries of a mapping are processed in the order they
\* were declared in.
C27_Original ==
  (calls[1].status # "idle" /\ Valid(calls[1])) => InDepthFirstOrder(calls[1], TRUE)

\* C27: a top-level call, Fixture.make or FixtureAsync.make, makes a
\* directory before its entries, makes the whole subtree of an entry before
\* the next entry, and takes the entries of a mapping in the order of
\* Object.entries (integer-like names first, in ascending order, then the
\* other names as declared); FixtureAsync.make awaits one operation at a
\* time, the one that is next in this order.
C27_DepthFirstInEntriesOrder ==
  (calls[1].status # "idle" /\ Valid(calls[1])) => InDepthFirstOrder(calls[1], FALSE)

\* {b: 'hello', '1': {c: 'subs'}, '0': symlink('b')} has been made: the
\* symlink recorded first, then the directory 1 and its file, then b.
C27_Witness ==
  /\ calls[1].status = "done" /\ calls[1].err = "" /\ calls[1].sync.err = ""
  /\ Len(rawToFixture(calls[1].content).fixture.entries) = 3
  /\ LET seen == WalkOf(calls[1].log) IN
     /\ Len(seen) = 5
     /\ seen[2] = [op |-> "record", path |-> Sub(calls[1].pathIn, "0")]
     /\ seen[3] = [op |-> "mkdirp", path |-> Sub(calls[1].pathIn, "1")]
     /\ seen[4].op = "writeFile" /\ seen[4].path = Sub(Sub(calls[1].pathIn, "1"), "c")
     /\ seen[5] = [op |-> "writeFile", path |-> Sub(calls[1].pathIn, "b")]

\* The event Fixture.make logs for the operation the asynchronous call
\* awaits: the event that follows the ones the call has logged.
AwaitedBySync(c) ==
  /\ Len(c.sync.log) > Len(c.log)
  /\ LET e == c.sync.log[Len(c.log) + 1] IN
     /\ e.op = c.pending.op
     /\ e.path = c.pending.path
     /\ e.target = c.pending.target
     /\ e.allowed = allowedPaths

\* C28: a FixtureAsync.make that runs with no other call interleaved does
\* what Fixture.make does on the same input: at every await it has made the
\* same checks and filesystem operations, on the same allowed-paths set, as
\* Fixture.make up to the operation it awaits, and it ends with the same
\* error or success, the same filesystem, the same allowed-paths set and
\* the same table of symlinks.
C28_SyncAsyncEquivalent ==
  LET c == calls[1] IN
  /\ c.status \in {"issued", "performed"} =>
       /\ IsPrefix(c.log, c.sync.log)
       /\ c.err = ""
  /\ c.status = "issued" => AwaitedBySync(c)
  /\ c.status = "done" =>
       /\ c.log = c.sync.log
       /\ c.err = c.sync.err
       /\ c.symlinks = c.sync.symlinks
       /\ fs = c.sync.fs
       /\ allowedPaths = c.sync.allowed

\* A FixtureAsync.make has ended as Fixture.make does, with the error of
\* the final pass for a symlink whose target is outside the root, after a
\* directory and a file were made.
C28_Witness ==
  LET c == calls[1] IN
  /\ c.status = "done"
  /\ c.err = "IllegalPath" /\ c.sync.err = "IllegalPath"
  /\ c.log = c.sync.log
  /\ Len(c.symlinks) = 1
  /\ \E k \in DOMAIN c.log : c.log[k].op = "writeFile" /\ c.log[k].ok
  /\ c.log[Len(c.log)].op = "check" /\ c.log[Len(c.log)].path = c.symlinks[1].target
  /\ fs = c.sync.fs

Records(c) == SelectSeq(c.log, LAMBDA e : e.op = "record")

\* The table the walk of a call has left, from the `record` events of its
\* log: every recorded path once, at the place of its first record, with
\* the target of its last record.
TableOf(c) ==
  LET recs == Records(c)
      firsts == SelectSeq([k \in DOMAIN recs |-> k],
                          LAMBDA k : \A j \in 1..(k - 1) : recs[j].path # recs[k].path)
      lastOf(p) == CHOOSE k \in DOMAIN recs :
                     /\ recs[k].path = p
                     /\ \A j \in DOMAIN recs : recs[j].path = p => j <= k
  IN [i \in DOMAIN firsts |->
        [path |-> recs[firsts[i]].path,
         target |-> recs[lastOf(recs[firsts[i]].path)].target]]

Stats(c) == SelectSeq(c.log, LAMBDA e : e.op = "stat")

Symlinks(c) == SelectSeq(c.log, LAMBDA e : e.op = "symlink")

\* The symlink a call has created at a path, as it is on disk.
CreatedAt(p) == fs[realpath(fs, p.segs, FALSE).segs]

\* C29: the final pass of a top-level Fixture.make goes through the table
\* of the symlinks its own walk has recorded, in the order of the table and
\* once each, up to the end or to the first that fails; it creates each
\* symlink with the type 'junction' when the target is a directory and with
\* 'file' when it is anything else.
C29_FinalPassOverOwnTable ==
  LET c == TheCall
      table == TableOf(c)
  IN Done(c) =>
    /\ Len(Symlinks(c)) <= Len(Stats(c)) /\ Len(Stats(c)) <= Len(table)
    /\ Len(Stats(c)) <= Len(Symlinks(c)) + 1
    /\ \A k \in DOMAIN Stats(c) : Stats(c)[k].path = table[k].target
    /\ \A k \in DOMAIN Symlinks(c) :
         /\ Symlinks(c)[k].path = table[k].path
         /\ Symlinks(c)[k].target = table[k].target
         /\ Stats(c)[k].ok
         /\ Symlinks(c)[k].ok =>
              /\ CreatedAt(table[k].path).kind = "symlink"
              /\ CreatedAt(table[k].path).target = table[k].target.segs
              /\ CreatedAt(table[k].path).type \in {"junction", "file"}
              /\ CreatedAt(table[k].path).type = "junction"
                   <=> statKind(fs, table[k].target) = "dir"
    /\ c.err = "" => /\ Len(Symlinks(c)) = Len(table)
                     /\ \A k \in DOMAIN Symlinks(c) : Symlinks(c)[k].ok
    /\ (c.err # "" /\ Symlinks(c) # <<>>) =>
         \A k \in 1..(Len(Symlinks(c)) - 1) : Symlinks(c)[k].ok

\* {a: {c: 'subs'}, b: symlink('a'), c: symlink('a/c')} has been made:
\* first b with the type 'junction', then c with the type 'file'.
C29_Witness ==
  LET c == TheCall IN
  /\ Succeeded(c)
  /\ Len(TableOf(c)) = 2
  /\ Len(Symlinks(c)) = 2
  /\ CreatedAt(Symlinks(c)[1].path).type = "junction"
  /\ CreatedAt(Symlinks(c)[2].path).type = "file"
  /\ Symlinks(c)[1].path = Sub(c.pathIn, "b")

\* The content whose walk comes back to a directory it is in:
\* d = {}; f = new FixtureAsync('dir', d); d['../a'] = f; {a: f}.
ReachesItself(content) ==
  \E i \in DOMAIN content.entries :
    LET f == content.entries[i].value IN
    /\ f.tagged /\ f.type = "dir"
    /\ \E j \in DOMAIN f.entries :
         /\ f.entries[j].value.oid = f.oid
         /\ join(content.entries[i].name, f.entries[j].name) = content.entries[i].name

\* C30: every top-level make call comes to an end, with success or with an
\* error, whatever content the constructor has accepted, contents in which
\* a 'dir' Fixture is reached from its own mapping included.  A call that
\* comes to an end is never in a configuration it has been in before: from
\* there it would go the same way again, and so without end.
C30_Terminates == Configuration \notin calls[1].was

\* A call whose content is not of that kind is never in the same
\* configuration twice.
C30_OthersTerminate ==
  ReachesItself(calls[1].content) \/ Configuration \notin calls[1].was


(***************************************************************************)
(* Hard links are made where the walk meets them.                          *)
(***************************************************************************)
\* Something was at the path when event k of the call took place: it was
\* there before the call, or an earlier operation of the call created it.
\* (A call removes nothing, and its symlinks come after all its hard links.)
ExistedAt(c, k, p) ==
  \/ p.segs \in DOMAIN c.before
  \/ \E j \in 1..(k - 1) :
       /\ c.log[j].op \in {"mkdirp", "writeFile", "link"} /\ c.log[j].ok
       /\ c.log[j].path.segs = p.segs

\* The target of node i is there when the walk comes to node i, provided
\* the walk has come that far: it was there before the call or it is the
\* node of an earlier place in the walk.
TargetFirst(c, nodes, i) ==
  \/ nodes[i].target.segs \in DOMAIN c.before
  \/ \E j \in 1..(i - 1) : nodes[j].path.segs = nodes[i].target.segs

\* Node i is a hard link to a file that is an earlier entry of the same
\* mapping, at a path that nothing is at.
LinkToEarlierSibling(c, nodes, i) ==
  /\ nodes[i].type = "link"
  /\ dirname(nodes[i].target) = dirname(nodes[i].path)
  /\ nodes[i].path.segs \notin DOMAIN c.before
  /\ \A j \in 1..(i - 1) : nodes[j].path.segs # nodes[i].path.segs
  /\ \E j \in 1..(i - 1) :
       nodes[j].type = "file" /\ nodes[j].path = nodes[i].target

(***************************************************************************)
(* C31  Hard links are created at visit time.  A hard link is made during  *)
(* the walk, at the place of its node in the depth-first order, never in   *)
(* the final pass; it is made only if, at that moment, its resolved target *)
(* exists and the parent directory of the target is in the allowed-paths   *)
(* set.  So a call with a hard link whose target is neither on disk before *)
(* the call nor an earlier node of the walk fails without making the link, *)
(* and a hard link to a file declared earlier in the same mapping is made. *)
(***************************************************************************)
C31_HardLinkAtVisitTime ==
  Done(TheCall) =>
    LET c == TheCall
        nodes == NodesOf(c)
        done == NodeEvents(c)
    IN
    /\ \A k \in DOMAIN c.log :
         c.log[k].op = "link" =>
           /\ \A j \in 1..(k - 1) : c.log[j].op \notin FlushOps
           /\ dirname(c.log[k].target) \in c.log[k].allowed
           /\ c.log[k].ok => ExistedAt(c, k, c.log[k].target)
    /\ \A i \in DOMAIN nodes :
         nodes[i].type = "link" =>
           /\ i <= Len(done) =>
                /\ done[i].op = "link"
                /\ done[i].path = nodes[i].path
                /\ done[i].target = nodes[i].target
           /\ ~TargetFirst(c, nodes, i) => ~Succeeded(c) /\ Len(done) < i
           /\ (LinkToEarlierSibling(c, nodes, i) /\ Len(done) >= i - 1) =>
                /\ Len(done) >= i
                /\ SameFile(fs, nodes[i].path, nodes[i].target)

\* {b: link('a'), a: 'hello'} under a fresh root: the call has failed at the
\* link, the second node of the walk, with the root made and nothing else.
C31_Witness ==
  /\ Done(TheCall) /\ TheCall.err = "ENOENT"
  /\ RootOf(TheCall) = FreshRoot(tmp)
  /\ Len(NodesOf(TheCall)) = 3
  /\ NodesOf(TheCall)[2] = Node(Sub(FreshRoot(tmp), "b"), "link", Sub(FreshRoot(tmp), "a"))
  /\ NodesOf(TheCall)[3] = Node(Sub(FreshRoot(tmp), "a"), "file", NoPath)
  /\ Len(NodeEvents(TheCall)) = 1
  /\ Last(TheCall.log).op = "link" /\ ~Last(TheCall.log).ok
  /\ statKind(fs, Sub(FreshRoot(tmp), "b")) = ""
  /\ statKind(fs, Sub(FreshRoot(tmp), "a")) = ""


(***************************************************************************)
(* The parent of a node that passes its check is on disk.                  *)
(***************************************************************************)
\* The directory was on disk when event k of the call took place: it is
\* the working or the temp directory, or an earlier mkdirp of the call has
\* made or accepted it.
DirExistedAt(c, k, d) ==
  \/ d \in {cwd, tmp}
  \/ \E j \in 1..(k - 1) :
       c.log[j].op = "mkdirp" /\ c.log[j].ok /\ c.log[j].path = d

\* The parent of node i is a directory the walk has made before it comes
\* to node i; for the top-level node, the working or the temp directory.
ParentFirst(nodes, i) ==
  IF i = 1 THEN dirname(nodes[i].path) \in {cwd, tmp}
  ELSE \E j \in 1..(i - 1) :
         nodes[j].type = "dir" /\ nodes[j].path = dirname(nodes[i].path)

(***************************************************************************)
(* C32  Parent-exists invariant.  Whenever a call passes the containment   *)
(* check of a path P, the parent directory of P is on disk: it is the      *)
(* working directory, the temp directory or a directory that an earlier    *)
(* mkdirp of the same call has made.  So mkdirp never creates an           *)
(* intermediate segment: every entry a call adds to the filesystem is at   *)
(* the path of one of its operations.  A directory or file node whose      *)
(* parent was not made earlier by the walk (a name with a separator whose  *)
(* intermediate segment is no earlier node) is rejected with 'Illegal      *)
(* path' and nothing is created for it.                                    *)
(***************************************************************************)
C32_ParentExists ==
  Done(TheCall) =>
    LET c == TheCall
        nodes == NodesOf(c)
        done == NodeEvents(c)
    IN
    /\ \A k \in DOMAIN c.log :
         (c.log[k].op = "check" /\ c.log[k].ok) =>
           /\ DirExistedAt(c, k, dirname(c.log[k].path))
           /\ statKind(fs, dirname(c.log[k].path)) = "dir"
    /\ \A q \in DOMAIN fs \ DOMAIN c.before :
         \E k \in Events(c, FsOps) : c.log[k].path.segs = q
    /\ \A i \in DOMAIN nodes :
         (/\ nodes[i].type \in {"dir", "file"}
          /\ Len(done) >= i - 1
          /\ ~ParentFirst(nodes, i)) =>
           /\ c.err = "IllegalPath"
           /\ Len(done) = i - 1
           /\ Last(c.log) = Ev("check", nodes[i].path, NoPath, FALSE, Last(c.log).allowed)
           /\ \A k \in DOMAIN c.log :
                c.log[k].op \in FsOps => c.log[k].path # nodes[i].path

\* {'a/c': {}} under a fresh root: the root was made, the directory
\* <root>/a/c was rejected and <root>/a was not created.
C32_Witness ==
  /\ Done(TheCall) /\ TheCall.err = "IllegalPath"
  /\ RootOf(TheCall) = FreshRoot(tmp)
  /\ Len(NodesOf(TheCall)) = 2
  /\ NodesOf(TheCall)[2] = Node(Sub(Sub(FreshRoot(tmp), "a"), "c"), "dir", NoPath)
  /\ Len(NodeEvents(TheCall)) = 1
  /\ statKind(fs, FreshRoot(tmp)) = "dir"
  /\ statKind(fs, Sub(FreshRoot(tmp), "a")) = ""
  /\ statKind(fs, Sub(Sub(FreshRoot(tmp), "a"), "c")) = ""


(***************************************************************************)
(* The allowed-paths set after the root collapse.                          *)
(***************************************************************************)
\* Event k of the log adds a directory to the set: the events before it
\* are the passed check of the directory and its mkdirp, with the clear in
\* between at the top-level directory.
AddedAfterCheckAndMkdirp(log, k) ==
  LET m == IF log[k - 1].op = "clear" THEN k - 2 ELSE k - 1 IN
  /\ m >= 2
  /\ log[m] = Ev("mkdirp", log[k].path, NoPath, TRUE, log[m].allowed)
  /\ log[m - 1] = Ev("check", log[k].path, NoPath, TRUE, log[m].allowed)
  /\ log[k].allowed = log[k - 1].allowed \cup {log[k].path}

\* From the add that follows the clear at event k on, the set of the log
\* grows, holds the root r, and holds only r and directories below r that
\* an earlier mkdirp of the log has made and that are on the disk f.
GrowsBelowRoot(log, k, r, f) ==
  /\ k < Len(log)
  /\ log[k].allowed = {}
  /\ log[k + 1].op = "add" /\ log[k + 1].path = r
  /\ \A j \in (k + 1)..Len(log) :
       /\ r \in log[j].allowed
       /\ j > k + 1 => log[j - 1].allowed \subseteq log[j].allowed
       /\ \A a \in log[j].allowed :
            /\ a = r \/ StrictlyBelow(a, r)
            /\ \E i \in 1..(j - 1) :
                 log[i].op = "mkdirp" /\ log[i].ok /\ log[i].path = a
            /\ statKind(f, a) = "dir"

AllowedSetKept(log, r, f) ==
  /\ \A k \in DOMAIN log : log[k].op = "clear" => GrowsBelowRoot(log, k, r, f)
  /\ \A k \in DOMAIN log : log[k].op = "add" => AddedAfterCheckAndMkdirp(log, k)

(***************************************************************************)
(* C33  Allowed-set invariant after root collapse.  At every moment of a   *)
(* top-level call, from the collapse of the set to the root R on: the set  *)
(* has only grown since, it holds R, and each of its elements is R or a    *)
(* directory strictly below R that a mkdirp of this call has made before;  *)
(* a directory is added only right after its own check has passed and its  *)
(* mkdirp has succeeded.  Stated for the asynchronous call at each of its  *)
(* awaits, with the set as it is at that moment, and for the synchronous   *)
(* call on the same input.                                                 *)
(***************************************************************************)
C33_AllowedSetGrowsBelowRoot ==
  LET c == calls[1] IN
  c.status # "idle" =>
    /\ AllowedSetKept(c.log, RootOf(c), fs)
    /\ AllowedSetKept(c.sync.log, RootOf(c), c.sync.fs)
    /\ (\E k \in DOMAIN c.log : c.log[k].op = "add") =>
         allowedPaths = Last(c.log).allowed

\* An asynchronous call awaits an operation after it has added its root and
\* a directory below it: the set is the two of them.
C33_Witness ==
  LET c == calls[1] IN
  /\ c.status = "issued"
  /\ RootOf(c) = FreshRoot(tmp)
  /\ allowedPaths = {FreshRoot(tmp), Sub(FreshRoot(tmp), "a")}
  /\ Cardinality({k \in DOMAIN c.log : c.log[k].op = "add"}) = 2
  /\ c.pending.op = "writeFile"
  /\ c.pending.path = Sub(Sub(FreshRoot(tmp), "a"), "c")


\* The hooks that the call for m registered find #testFinished false when
\* the first of them is called: the wrapper is the asynchronous one, or the
\* test of m is the first test of the file that has called createTestDir.
FirstTestWithDirs(m) ==
  calls[1].api = "testDirAsync" \/ m.test = calls[1].made[1].test

\* C34: the handler that a createTestDir call has registered removes the
\* directory which that call has created: with keepFixture false, every
\* directory that createTestDir has returned to a test is gone when the
\* hooks of the test have been called, also when the test has called
\* createTestDir more than once.
C34_EachCallRemovesOwnDir ==
  ~calls[1].keepFixture =>
    \A m \in Made :
      (m.returned /\ FirstTestWithDirs(m) /\ TestOver(m.test)) =>
        m.dir.segs \notin DOMAIN fs


\* C35: isTestDirCreated reflects the most recent call: once createTestDir
\* has been called, the getter is true exactly when the most recent call
\* has returned a path, and false when that call has thrown, in the
\* synchronous and in the asynchronous wrapper.  Stated for calls whose
\* hook registrations have not thrown.
C35_ReflectsMostRecentCall ==
  (calls[1].last # NoResult /\ calls[1].last.cause # "HooksUnavailable") =>
    (calls[1].createdTestDir <=> calls[1].last.path # NoPath)


(***************************************************************************)
(* The final pass and its first failure.                                   *)
(***************************************************************************)
\* The walk of the call is complete and the call has failed: it has failed
\* in the final pass.
FailedInFinalPass(c) ==
  /\ Done(c) /\ c.err # ""
  /\ Len(NodeEvents(c)) = Len(NodesOf(c))
  /\ NodesOf(c) # <<>>

\* A symlink is at the path of the table entry, with the entry's target.
OnDisk(f, sl) ==
  /\ sl.path.segs \in DOMAIN f
  /\ f[sl.path.segs].kind = "symlink"
  /\ f[sl.path.segs].target = sl.target.segs

\* Nothing is at the path before the final pass: nothing was there before
\* the call and the walk has created nothing there.
AbsentAfterWalk(c, p) ==
  /\ statKind(c.before, p) = ""
  /\ \A k \in Events(c, {"mkdirp", "writeFile", "link"}) :
       c.log[k].path.segs # p.segs

(***************************************************************************)
(* C36  The final pass stops at the first symlink that fails its           *)
(* containment check or the check that its target exists.  The symlinks    *)
(* recorded before it are on disk, as created; the failing symlink and     *)
(* those recorded after it are not created.  In particular a symlink whose *)
(* target is the path of a symlink that the same call has recorded later   *)
(* (and that nothing else is at) fails the check that its target exists.   *)
(***************************************************************************)
C36_FinalPassStopsAtFirstFailure ==
  LET c == TheCall
      table == c.symlinks
      made == SymlinkEvents(c)
      n == Len(made)
  IN
  /\ (FailedInFinalPass(c) /\ c.err \in {"IllegalPath", "MissingTarget"}) =>
       /\ n < Len(table)
       /\ ~Last(c.log).ok
       /\ Last(c.log).op = (IF c.err = "IllegalPath" THEN "check" ELSE "stat")
       /\ Last(c.log).path \in {table[n + 1].path, table[n + 1].target}
       /\ \A j \in 1..n :
            /\ made[j].path = table[j].path /\ made[j].target = table[j].target
            /\ OnDisk(fs, table[j])
       /\ \A j \in (n + 1)..Len(table) :
            /\ \A k \in DOMAIN c.log :
                 c.log[k].op = "symlink" => c.log[k].path # table[j].path
            /\ ~OnDisk(fs, table[j]) \/ OnDisk(c.before, table[j])
  /\ (Done(c) /\ Len(NodeEvents(c)) = Len(NodesOf(c))) =>
       \A i, j \in DOMAIN table :
         (/\ i < j
          /\ table[i].target = table[j].path
          /\ AbsentAfterWalk(c, table[j].path)
          /\ n >= i - 1) =>
           /\ n = i - 1
           /\ c.err \in {"IllegalPath", "MissingTarget"}
           /\ (isAllowed(allowedPaths, table[i].path)
                 /\ isAllowed(allowedPaths, table[i].target)) =>
                c.err = "MissingTarget" /\ Last(c.log).path = table[i].target

\* {a: 'hello', b: symlink('a'), c: symlink('d')} with nothing at d: the
\* final pass has created b, has failed at c, and b is on disk.
C36_Witness ==
  LET c == TheCall IN
  /\ FailedInFinalPass(c) /\ c.err = "MissingTarget"
  /\ Len(c.symlinks) = 2
  /\ Len(SymlinkEvents(c)) = 1
  /\ OnDisk(fs, c.symlinks[1])
  /\ ~OnDisk(fs, c.symlinks[2])
  /\ Last(c.log).path = c.symlinks[2].target


(***************************************************************************)
(* Content that validation refuses.                                        *)
(***************************************************************************)
\* A raw value that is neither a string, a byte sequence, a mapping nor a
\* Fixture is among the entries that validation comes to.
HasInvalidLeaf(v) ==
  \E i \in DOMAIN visited(objectEntries(v.entries)) :
    LET e == visited(objectEntries(v.entries))[i] IN
    ~e.value.tagged /\ e.value.js \in {"number", "boolean", "null", "undefined"}

\* The raw mapping holds a cycle, a mapping at two positions or an invalid
\* leaf, in its tree of raw mappings.
FailsValidation(v) ==
  /\ ~v.tagged /\ v.js = "object"
  /\ \/ \E p \in rawPositions(v, <<>>) \cup {[pos |-> <<>>, oid |-> v.oid]} :
          \E q \in rawPositions(v, <<>>) :
            p.oid = q.oid /\ p.pos # q.pos /\ IsPrefix(p.pos, q.pos)
     \/ SharedAt(rawPositions(v, <<>>)) # {}
     \/ HasInvalidLeaf(v)

(***************************************************************************)
(* C37  Validation precedes mutation.  A top-level call whose raw content  *)
(* holds a cycle, a shared mapping or an invalid leaf fails with the       *)
(* error of the validation, and a call that fails with such an error has   *)
(* done nothing: no check, no reset of the allowed-paths set, no           *)
(* filesystem operation; the filesystem and the allowed-paths set are as   *)
(* they were before the call, with what the call before it had left in     *)
(* the set.                                                                *)
(***************************************************************************)
C37_ValidationPrecedesMutation ==
  LET c == TheCall IN
  Done(c) =>
    /\ FailsValidation(c.content) => c.err \in ValidationErrors
    /\ c.err \in ValidationErrors =>
         /\ c.log = <<>>
         /\ c.symlinks = <<>>
         /\ fs = c.before
         /\ allowedPaths = c.allowedBefore

\* The second call was given {a: 'hello', d: <the mapping itself>}: it has
\* failed with the cycle error, and the set still holds the root that the
\* first call has left in it, and neither the working nor the temp
\* directory.
C37_Witness ==
  LET c == TheCall IN
  /\ Done(c) /\ c.n = 2
  /\ c.err = "CycleDetected"
  /\ FailsValidation(c.content)
  /\ c.content.entries[1].value = RawStr(Hello)
  /\ allowedPaths = c.allowedBefore
  /\ FreshRoot(tmp) \in allowedPaths
  /\ cwd \notin allowedPaths /\ tmp \notin allowedPaths
  /\ statKind(fs, Sub(RootOf(c), "a")) = ""


(***************************************************************************)
(* A createTestDir in which Fixture.make has thrown.                       *)
(***************************************************************************)
\* Entry i of `made` is the directory of a call in which mkdtemp has made
\* the directory and Fixture.make has thrown.
MakeRaised(i) == ~calls[1].made[i].returned

\* A call of the same test, before call i, has returned and so has
\* registered hooks.
HooksBefore(i) ==
  \E j \in 1..(i - 1) :
    calls[1].made[j].test = calls[1].made[i].test /\ calls[1].made[j].returned

\* Call i is the last call of its test that has made a directory.
LastOfItsTest(i) ==
  \A j \in DOMAIN calls[1].made :
    calls[1].made[j].test = calls[1].made[i].test => j <= i

=============================================================================
